---- MODULE Spec2Model ----
(***************************************************************************)
(* Unit conversion and nutrient scaling of the USDA nutrition proxy:       *)
(*   helpers.py  normalize_unit, convert_units and their unit tables       *)
(*   models.py   Portion, Ingredient.scale                                 *)
(*                                                                         *)
(* Numbers.  The code computes with IEEE doubles; here every number is an  *)
(* exact rational [n, d] in lowest terms with d > 0, and round(x, 4) is    *)
(* round-half-even on the exact value.  The two agree except where the     *)
(* exact value lies on a rounding tie (the double is then a hair off the   *)
(* tie and Python rounds by the double); the amounts enumerated below      *)
(* produce no such tie.                                                    *)
(*                                                                         *)
(* Strings.  A unit string is a sequence of one-character strings, so that *)
(* str.strip() and str.lower() are computed character by character.        *)
(***************************************************************************)
EXTENDS Integers, Sequences, FiniteSets, TLC

VARIABLES ing, base, hist, steps, conv, norm, agg, lim, look

vars == <<ing, base, hist, steps, conv, norm, agg, lim, look>>

----------------------------------------------------------------------------
(* Rational arithmetic                                                      *)

Abs(x) == IF x < 0 THEN -x ELSE x

RECURSIVE GCD(_, _)
GCD(a, b) == IF b = 0 THEN a ELSE GCD(b, a % b)

\* the rational n/d in lowest terms (d > 0)
Rat(n, d) ==
    LET g == GCD(Abs(n), d) IN [n |-> n \div g, d |-> d \div g]

RECURSIVE Pow10(_)
Pow10(e) == IF e = 0 THEN 1 ELSE 10 * Pow10(e - 1)

\* the decimal literal m * 10^-e, e.g. Dec(283495, 4) is 28.3495
Dec(m, e) == Rat(m, Pow10(e))

Zero == Rat(0, 1)

IsZero(x) == x.n = 0

IsNeg(x) == x.n < 0

\* x * y, reducing crosswise before multiplying
RatMul(x, y) ==
    LET g1 == GCD(Abs(x.n), y.d)
        g2 == GCD(Abs(y.n), x.d)
    IN  [n |-> (x.n \div g1) * (y.n \div g2), d |-> (x.d \div g2) * (y.d \div g1)]

\* 1 / y for y # 0
RatInv(y) == IF y.n < 0 THEN [n |-> -y.d, d |-> -y.n] ELSE [n |-> y.d, d |-> y.n]

\* x / y for y # 0
RatDiv(x, y) == RatMul(x, RatInv(y))

\* <<q, r>> with a * m = q * d + r and 0 <= r < d, for 0 <= a < d and m >= 0.
\* The product is formed directly when it fits a 32-bit integer; otherwise m
\* is split in base B, the largest base for which no partial sum can overflow.
RECURSIVE MulDivMod(_, _, _)
MulDivMod(a, m, d) ==
    IF a = 0 \/ m <= 2147483647 \div a
    THEN <<(a * m) \div d, (a * m) % d>>
    ELSE LET B  == (2147483647 \div d) - 1
             h  == MulDivMod(a, m \div B, d)
             p  == a * (m % B)
             lo == B * h[2] + (p % d)
         IN  <<B * h[1] + (p \div d) + (lo \div d), lo % d>>

\* divide the common factors of d and the members of ns out of both
RECURSIVE CancelInto(_, _)
CancelInto(ns, d) ==
    IF ns = <<>> THEN <<ns, d>>
    ELSE LET g    == GCD(Head(ns), d)
             rest == CancelInto(Tail(ns), d \div g)
         IN  <<(<<Head(ns) \div g>>) \o rest[1], rest[2]>>

\* <<ns', D>> with (product of ns') / D = (product of ns) / (product of ds), cancelled
RECURSIVE CancelAll(_, _)
CancelAll(ns, ds) ==
    IF ds = <<>> THEN <<ns, 1>>
    ELSE LET c    == CancelInto(ns, Head(ds))
             rest == CancelAll(c[1], Tail(ds))
         IN  <<rest[1], c[2] * rest[2]>>

\* <<q, r>> with (product of ms) / D = q + r / D and 0 <= r < D, for D > 1
RECURSIVE MulChain(_, _)
MulChain(ms, D) ==
    IF ms = <<>> THEN <<0, 1>>
    ELSE LET k  == Len(ms)
             qr == MulChain(SubSeq(ms, 1, k - 1), D)
             s  == MulDivMod(qr[2], ms[k], D)
         IN  <<qr[1] * ms[k] + s[1], s[2]>>

RECURSIVE Product(_)
Product(ns) == IF ns = <<>> THEN 1 ELSE Head(ns) * Product(Tail(ns))

NDIGITS == 4

\* Python's round(x, 4) of the exact product x of the rationals xs: the nearest
\* multiple of 10^-4, ties to even.  The product is never formed: 10^4 and the
\* numerators are cancelled against the denominators first.
Round4Prod(xs) ==
    LET Q    == Pow10(NDIGITS)
        neg  == Cardinality({i \in 1..Len(xs) : xs[i].n < 0}) % 2 = 1
        c    == CancelAll([i \in 1..Len(xs) |-> Abs(xs[i].n)] \o <<Q>>,
                          [i \in 1..Len(xs) |-> xs[i].d])
        ns   == c[1]
        D    == c[2]
        Sgn(k) == IF neg THEN -k ELSE k
    IN  IF \E i \in 1..Len(xs) : xs[i].n = 0 THEN Zero
        ELSE IF D = 1
        THEN Rat(Sgn(Product(SubSeq(ns, 1, Len(xs)))), Q \div ns[Len(ns)])
        ELSE LET qr == MulChain(ns, D)
                 q  == qr[1]
                 r  == qr[2]
                 up == IF 2 * r > D THEN 1 ELSE IF 2 * r = D THEN q % 2 ELSE 0
             IN  Rat(Sgn(q + up), Q)

\* round(x, 4)
Round4(x) == Round4Prod(<<x>>)

\* round(x / y, 4) for y # 0
Round4Quot(x, y) == Round4Prod(<<x, RatInv(y)>>)

----------------------------------------------------------------------------
(* Strings                                                                  *)

UPPERCASE ==
    <<"A","B","C","D","E","F","G","H","I","J","K","L","M",
      "N","O","P","Q","R","S","T","U","V","W","X","Y","Z">>

LOWERCASE ==
    <<"a","b","c","d","e","f","g","h","i","j","k","l","m",
      "n","o","p","q","r","s","t","u","v","w","x","y","z">>

WHITESPACE == {" ", "\t", "\n"}

LowerChar(c) ==
    IF \E i \in 1..Len(UPPERCASE) : UPPERCASE[i] = c
    THEN LOWERCASE[CHOOSE i \in 1..Len(UPPERCASE) : UPPERCASE[i] = c]
    ELSE c

\* str.lower()
Lower(s) == [i \in 1..Len(s) |-> LowerChar(s[i])]

RECURSIVE LStrip(_)
LStrip(s) == IF s # <<>> /\ Head(s) \in WHITESPACE THEN LStrip(Tail(s)) ELSE s

RECURSIVE RStrip(_)
RStrip(s) ==
    IF s # <<>> /\ s[Len(s)] \in WHITESPACE THEN RStrip(SubSeq(s, 1, Len(s) - 1)) ELSE s

\* str.strip()
Strip(s) == RStrip(LStrip(s))

----------------------------------------------------------------------------
(* helpers.py: unit tables                                                  *)

MASS_UNITS ==
    (<<"m","g">> :> Dec(1, 3))
    @@ (<<"g">> :> Dec(1, 0))
    @@ (<<"k","g">> :> Dec(1000, 0))
    @@ (<<"o","z">> :> Dec(283495, 4))
    @@ (<<"l","b">> :> Dec(45359237, 5))

VOLUME_TO_ML ==
    (<<"m","l">> :> Dec(1, 0))
    @@ (<<"l">> :> Dec(1000, 0))
    @@ (<<"t","s","p">> :> Dec(492892, 5))
    @@ (<<"t","b","s","p">> :> Dec(147868, 4))
    @@ (<<"f","l"," ","o","z">> :> Dec(295735, 4))
    @@ (<<"c","u","p">> :> Dec(240, 0))
    @@ (<<"p","i","n","t">> :> Dec(473176, 3))
    @@ (<<"q","u","a","r","t">> :> Dec(946353, 3))
    @@ (<<"g","a","l","l","o","n">> :> Dec(378541, 2))

UNIT_SYNONYMS ==
    (<<"m","i","l","l","i","g","r","a","m">> :> <<"m","g">>)
    @@ (<<"m","i","l","l","i","g","r","a","m","s">> :> <<"m","g">>)
    @@ (<<"m","g">> :> <<"m","g">>)
    @@ (<<"g","r","a","m">> :> <<"g">>)
    @@ (<<"g","r","a","m","s">> :> <<"g">>)
    @@ (<<"g">> :> <<"g">>)
    @@ (<<"k","i","l","o","g","r","a","m">> :> <<"k","g">>)
    @@ (<<"k","i","l","o","g","r","a","m","s">> :> <<"k","g">>)
    @@ (<<"k","g">> :> <<"k","g">>)
    @@ (<<"o","u","n","c","e">> :> <<"o","z">>)
    @@ (<<"o","u","n","c","e","s">> :> <<"o","z">>)
    @@ (<<"o","z">> :> <<"o","z">>)
    @@ (<<"p","o","u","n","d">> :> <<"l","b">>)
    @@ (<<"p","o","u","n","d","s">> :> <<"l","b">>)
    @@ (<<"l","b">> :> <<"l","b">>)
    @@ (<<"m","i","l","l","i","l","i","t","e","r">> :> <<"m","l">>)
    @@ (<<"m","i","l","l","i","l","i","t","e","r","s">> :> <<"m","l">>)
    @@ (<<"m","l">> :> <<"m","l">>)
    @@ (<<"l","i","t","e","r">> :> <<"l">>)
    @@ (<<"l","i","t","e","r","s">> :> <<"l">>)
    @@ (<<"l">> :> <<"l">>)
    @@ (<<"t","e","a","s","p","o","o","n">> :> <<"t","s","p">>)
    @@ (<<"t","e","a","s","p","o","o","n","s">> :> <<"t","s","p">>)
    @@ (<<"t","s","p">> :> <<"t","s","p">>)
    @@ (<<"t","a","b","l","e","s","p","o","o","n">> :> <<"t","b","s","p">>)
    @@ (<<"t","a","b","l","e","s","p","o","o","n","s">> :> <<"t","b","s","p">>)
    @@ (<<"t","b","s","p">> :> <<"t","b","s","p">>)
    @@ (<<"f","l","u","i","d"," ","o","u","n","c","e">> :> <<"f","l"," ","o","z">>)
    @@ (<<"f","l","u","i","d"," ","o","u","n","c","e","s">> :> <<"f","l"," ","o","z">>)
    @@ (<<"f","l"," ","o","z">> :> <<"f","l"," ","o","z">>)
    @@ (<<"c","u","p">> :> <<"c","u","p">>)
    @@ (<<"c","u","p","s">> :> <<"c","u","p">>)
    @@ (<<"p","i","n","t">> :> <<"p","i","n","t">>)
    @@ (<<"p","i","n","t","s">> :> <<"p","i","n","t">>)
    @@ (<<"p","t">> :> <<"p","i","n","t">>)
    @@ (<<"q","u","a","r","t">> :> <<"q","u","a","r","t">>)
    @@ (<<"q","u","a","r","t","s">> :> <<"q","u","a","r","t">>)
    @@ (<<"q","t">> :> <<"q","u","a","r","t">>)
    @@ (<<"g","a","l","l","o","n">> :> <<"g","a","l","l","o","n">>)
    @@ (<<"g","a","l","l","o","n","s">> :> <<"g","a","l","l","o","n">>)
    @@ (<<"g","a","l">> :> <<"g","a","l","l","o","n">>)

\* VOLUME_UNITS = set(VOLUME_TO_ML.keys())
VOLUME_UNITS == DOMAIN VOLUME_TO_ML

\* the dict local to convert_units: volume unit -> grams (water density)
volume_to_mass ==
    (<<"c","u","p">> :> Dec(240, 0))
    @@ (<<"t","b","s","p">> :> Dec(15, 0))
    @@ (<<"t","s","p">> :> Dec(5, 0))
    @@ (<<"f","l"," ","o","z">> :> Dec(30, 0))
    @@ (<<"m","l">> :> Dec(1, 0))
    @@ (<<"l">> :> Dec(1000, 0))
    @@ (<<"p","i","n","t">> :> Dec(473, 0))
    @@ (<<"q","u","a","r","t">> :> Dec(946, 0))
    @@ (<<"g","a","l","l","o","n">> :> Dec(3785, 0))

G == <<"g">>

----------------------------------------------------------------------------
(* helpers.py: normalize_unit, convert_units                                *)

\* dict.get(key, default)
DictGet(dict, key, default) == IF key \in DOMAIN dict THEN dict[key] ELSE default

\* a normalizer that lowercases but does not trim
normalize_unit_NoStrip(unit) ==
    LET u == Lower(unit) IN DictGet(UNIT_SYNONYMS, u, u)

normalize_unit(unit) ==
    LET u == Lower(Strip(unit)) IN DictGet(UNIT_SYNONYMS, u, u)

\* outcomes of a call: a returned value, or a raised exception
NoError == [kind |-> "none", a |-> <<>>, b |-> <<>>]

Returned(v) == [err |-> NoError, val |-> v]

Raised(kind, a, b) == [err |-> [kind |-> kind, a |-> a, b |-> b], val |-> Zero]

\* ValueError("Amount must be non-negative")
InvalidAmount == Raised("Amount must be non-negative", <<>>, <<>>)

\* ValueError(f"Cannot convert from '{from_unit}' to '{to_unit}'.")
UnsupportedConversion(from_unit, to_unit) == Raised("Cannot convert", from_unit, to_unit)

\* an identity shortcut that only recognized units take
SameUnit_RecognizedOnly(f, t) == f = t /\ f \in DOMAIN UNIT_SYNONYMS

\* line 221: if f == t
SameUnit(f, t) == f = t

\* a same-domain conversion that forgets to round
ViaBase_Unrounded(amount, mult_f, mult_t) == RatDiv(RatMul(amount, mult_f), mult_t)

\* lines 226-227 and 231-232: through the base unit, rounded to 4 decimals
\* (base_amount = amount * mult_f is not formed on its own: it need not fit
\* TLC's integers)
ViaBase(amount, mult_f, mult_t) == Round4Prod(<<amount, mult_f, RatInv(mult_t)>>)

\* line 248: amount * volume_to_mass[f]
VolumeToGrams(amount, f) == RatMul(amount, volume_to_mass[f])

\* a grams-to-volume conversion rounded like the same-domain ones
GramsToVolume_Rounded(amount, t) == Round4Quot(amount, volume_to_mass[t])

\* line 252: amount / volume_to_mass[t]
GramsToVolume(amount, t) == RatDiv(amount, volume_to_mass[t])

\* a converter that validates the amount only after the identity shortcut
convert_units_LateCheck(amount, from_unit, to_unit) ==
    LET f == normalize_unit(from_unit)
        t == normalize_unit(to_unit)
    IN  IF SameUnit(f, t) THEN Returned(amount)
        ELSE IF IsNeg(amount) THEN InvalidAmount
        ELSE IF f \in DOMAIN MASS_UNITS /\ t \in DOMAIN MASS_UNITS
        THEN Returned(ViaBase(amount, MASS_UNITS[f], MASS_UNITS[t]))
        ELSE IF f \in DOMAIN VOLUME_TO_ML /\ t \in DOMAIN VOLUME_TO_ML
        THEN Returned(ViaBase(amount, VOLUME_TO_ML[f], VOLUME_TO_ML[t]))
        ELSE IF f \in DOMAIN volume_to_mass /\ t = G
        THEN Returned(VolumeToGrams(amount, f))
        ELSE IF f = G /\ t \in DOMAIN volume_to_mass
        THEN Returned(GramsToVolume(amount, t))
        ELSE UnsupportedConversion(from_unit, to_unit)

\* a converter whose density shortcut accepts any mass unit in place of 'g'
convert_units_AnyMass(amount, from_unit, to_unit) ==
    IF IsNeg(amount) THEN InvalidAmount
    ELSE
    LET f == normalize_unit(from_unit)
        t == normalize_unit(to_unit)
    IN  IF SameUnit(f, t) THEN Returned(amount)
        ELSE IF f \in DOMAIN MASS_UNITS /\ t \in DOMAIN MASS_UNITS
        THEN Returned(ViaBase(amount, MASS_UNITS[f], MASS_UNITS[t]))
        ELSE IF f \in DOMAIN VOLUME_TO_ML /\ t \in DOMAIN VOLUME_TO_ML
        THEN Returned(ViaBase(amount, VOLUME_TO_ML[f], VOLUME_TO_ML[t]))
        ELSE IF f \in DOMAIN volume_to_mass /\ t \in DOMAIN MASS_UNITS
        THEN Returned(VolumeToGrams(amount, f))
        ELSE IF f \in DOMAIN MASS_UNITS /\ t \in DOMAIN volume_to_mass
        THEN Returned(GramsToVolume(amount, t))
        ELSE UnsupportedConversion(from_unit, to_unit)

convert_units(amount, from_unit, to_unit) ==
    IF IsNeg(amount) THEN InvalidAmount
    ELSE
    LET f == normalize_unit(from_unit)
        t == normalize_unit(to_unit)
    IN  IF SameUnit(f, t) THEN Returned(amount)
        ELSE IF f \in DOMAIN MASS_UNITS /\ t \in DOMAIN MASS_UNITS
        THEN Returned(ViaBase(amount, MASS_UNITS[f], MASS_UNITS[t]))
        ELSE IF f \in DOMAIN VOLUME_TO_ML /\ t \in DOMAIN VOLUME_TO_ML
        THEN Returned(ViaBase(amount, VOLUME_TO_ML[f], VOLUME_TO_ML[t]))
        ELSE IF f \in DOMAIN volume_to_mass /\ t = G
        THEN Returned(VolumeToGrams(amount, f))
        ELSE IF f = G /\ t \in DOMAIN volume_to_mass
        THEN Returned(GramsToVolume(amount, t))
        ELSE UnsupportedConversion(from_unit, to_unit)

----------------------------------------------------------------------------
(* models.py: Portion, Nutrient, Ingredient.scale                           *)

\* Portion(unit=..., amount=..., grams=...); the validator on unit strips and
\* lowercases it.  The display-only description is not modelled.
Portion(unit, amount, grams) ==
    [unit |-> Lower(Strip(unit)), amount |-> amount, grams |-> grams]

\* Nutrient: the friendly key and the value per serving
Nutrient(key, value) == [key |-> key, value |-> value]

\* the 100 g portion the constructors start from
default_portion == Portion(G, Dec(100, 0), Dec(100, 0))

\* a resolution that takes the last matching portion instead of the first
LastMatch(portions, unit_norm) ==
    LET hits == {i \in 1..Len(portions) : portions[i].unit = unit_norm}
    IN  IF hits = {} THEN 0 ELSE CHOOSE i \in hits : \A j \in hits : i >= j

\* next((p for p in self.portions if p.unit == unit_norm), None):
\* the index of the first matching portion, 0 for None
FirstMatch(portions, unit_norm) ==
    LET hits == {i \in 1..Len(portions) : portions[i].unit = unit_norm}
    IN  IF hits = {} THEN 0 ELSE CHOOSE i \in hits : \A j \in hits : i <= j

\* lines 178-183: the new gram weight, or the exception raised computing it
NewGrams(self, amount, unit_norm) ==
    LET m == FirstMatch(self.portions, unit_norm) IN
    IF m # 0
    THEN LET match == self.portions[m]
         IN  IF IsZero(match.amount)
             THEN Raised("ZeroDivisionError", <<>>, <<>>)
             ELSE Returned(RatMul(RatDiv(amount, match.amount), match.grams))
    ELSE convert_units(amount, unit_norm, G)

\* lines 193-194: the scale factor, held as the sequence of rationals whose
\* product it is (new_grams * 1/old_grams) so that the quotient itself, which
\* need not fit TLC's integers, is never formed
Factor(old_grams, new_grams) ==
    IF ~IsZero(old_grams) /\ ~IsZero(new_grams)
    THEN <<new_grams, RatInv(old_grams)>>
    ELSE <<Rat(1, 1)>>

\* a loop that stops one nutrient short
ScaleNutrients_SkipsLast(nutrients, factor) ==
    [i \in 1..Len(nutrients) |->
        IF i = Len(nutrients) THEN nutrients[i]
        ELSE [nutrients[i] EXCEPT !.value = Round4Prod(<<nutrients[i].value>> \o factor)]]

\* lines 196-198: nut.value = round(nut.value * factor, 4) for every nutrient
ScaleNutrients(nutrients, factor) ==
    [i \in 1..Len(nutrients) |->
        [nutrients[i] EXCEPT !.value = Round4Prod(<<nutrients[i].value>> \o factor)]]

\* a scale that replaces the serving before it asks the converter, so that a
\* raised exception leaves the new serving behind
scale_ServingFirst(self, amount, unit) ==
    LET unit_norm == Lower(Strip(unit))
        old_grams == self.serving.grams
        ng        == NewGrams(self, amount, unit_norm)
        replaced  == [self EXCEPT !.serving = Portion(unit_norm, amount, ng.val)]
    IN  IF ng.err # NoError
        THEN [ing |-> replaced, err |-> ng.err]
        ELSE [ing |-> [replaced EXCEPT
                          !.nutrients = ScaleNutrients(self.nutrients,
                                                       Factor(old_grams, ng.val))],
              err |-> NoError]

\* Ingredient.scale(amount, unit): the ingredient after the call and the
\* exception the call raised, if any
scale(self, amount, unit) ==
    LET unit_norm == Lower(Strip(unit))
        old_grams == self.serving.grams
        ng        == NewGrams(self, amount, unit_norm)
    IN  IF ng.err # NoError
        THEN [ing |-> self, err |-> ng.err]
        ELSE LET new_grams == ng.val
                 factor    == Factor(old_grams, new_grams)
             IN  [ing |-> [self EXCEPT
                              !.serving   = Portion(unit_norm, amount, new_grams),
                              !.nutrients = ScaleNutrients(self.nutrients, factor)],
                  err |-> NoError]

----------------------------------------------------------------------------
(* Recipe aggregation: services/recipe_service.py, routes/recipe.py,        *)
(* services/recipe_service_async.py with routes/recipe_async.py             *)

\* x + y
RatAdd(x, y) == Rat(x.n * y.d + y.n * x.d, x.d * y.d)

\* round(x, 2) for x >= 0: the nearest multiple of 10^-2, ties to even
Round2(x) ==
    LET Q   == Pow10(2)
        num == x.n * Q
        q   == num \div x.d
        r   == num % x.d
        up  == IF 2 * r > x.d THEN 1 ELSE IF 2 * r = x.d THEN q % 2 ELSE 0
    IN  Rat(q + up, Q)

\* NUTRIENT_MAP.values(): the tracked nutrient keys
NUTRIENT_KEYS ==
    {"energy", "fat", "protein", "carbs", "fiber", "sugars", "sat_fat", "trans_fat",
     "cholesterol", "sodium", "calcium", "iron", "potassium", "vitamin_d"}

\* a Nutrient as the aggregators read it: friendly key, USDA name, value
NamedNutrient(key, name, value) == [key |-> key, name |-> name, value |-> value]

\* what get_ingredient gave for one item of the request: the (scaled)
\* ingredient's nutrients, or the failure of the lookup with the status of
\* the HTTPException the ingredient routes raise for it
Found(nutrients) == [ok |-> TRUE, nutrients |-> nutrients, status |-> 200]

\* no upstream match
LookupFailed == [ok |-> FALSE, nutrients |-> <<>>, status |-> 404]

\* the lookup was refused by _check_rate_limit (async lookups only)
RateLimited == [ok |-> FALSE, nutrients |-> <<>>, status |-> 429]

\* the index of the first failed lookup, 0 if none failed
FirstFailure(items) ==
    LET bad == {i \in 1..Len(items) : ~items[i].ok}
    IN  IF bad = {} THEN 0 ELSE CHOOSE i \in bad : \A j \in bad : i <= j

\* the nutrients of all ingredients, in the order the nested loops visit them
RECURSIVE AllNutrients(_)
AllNutrients(ingredients) ==
    IF ingredients = <<>> THEN <<>>
    ELSE Head(ingredients).nutrients \o AllNutrients(Tail(ingredients))

\* the outcome of an aggregation: the exception or HTTP status, the totals,
\* and the number of get_ingredient calls made
RecipeOutcome(err, http, total, lookups) ==
    [err |-> err, http |-> http, total |-> total, lookups |-> lookups]

NoTotal == <<>>

\* recipe_service.py lines 33-36: total[nut.name] = total.get(nut.name, 0) + nut.value
RECURSIVE SumByName(_, _)
SumByName(total, nuts) ==
    IF nuts = <<>> THEN total
    ELSE LET nut == Head(nuts)
             t   == IF nut.name \in DOMAIN total
                    THEN [total EXCEPT ![nut.name] = RatAdd(@, nut.value)]
                    ELSE total @@ (nut.name :> RatAdd(Zero, nut.value))
         IN  SumByName(t, Tail(nuts))

\* services/recipe_service.py calculate_recipe(items)
calculate_recipe(items) ==
    IF items = <<>>
    THEN RecipeOutcome("Empty ingredient list", 0, NoTotal, 0)
    ELSE LET f == FirstFailure(items)
         IN  IF f # 0
             THEN RecipeOutcome("Error processing ingredient", 0, NoTotal, f)
             ELSE RecipeOutcome("none", 0, SumByName(<<>>, AllNutrients(items)),
                                Len(items))

\* routes/recipe.py line 40: totals[nut.key] += nut.value, on the dict that
\* line 25 fills with 0.0 for every tracked key
RECURSIVE SumIntoTracked(_, _)
SumIntoTracked(totals, nuts) ==
    IF nuts = <<>> THEN totals
    ELSE LET nut == Head(nuts)
         IN  SumIntoTracked([totals EXCEPT ![nut.key] = RatAdd(@, nut.value)], Tail(nuts))

\* routes/recipe.py recipe(items): the status is 200, or the status of the
\* HTTPException of the first failed lookup
recipe(items) ==
    LET f       == FirstFailure(items)
        fetched == IF f = 0 THEN items ELSE SubSeq(items, 1, f - 1)
    IN  IF f # 0
        THEN RecipeOutcome("HTTPException", items[f].status, NoTotal, f)
        ELSE RecipeOutcome("none", 200,
                           SumIntoTracked([k \in NUTRIENT_KEYS |-> Zero],
                                          AllNutrients(fetched)),
                           Len(items))

\* recipe_service_async.py lines 62-74: total_nutrients[nutrient.key]["value"] += value
RECURSIVE SumByKey(_, _)
SumByKey(total, nuts) ==
    IF nuts = <<>> THEN total
    ELSE LET nut == Head(nuts)
             t   == IF nut.key \in DOMAIN total
                    THEN [total EXCEPT ![nut.key] = RatAdd(@, nut.value)]
                    ELSE total @@ (nut.key :> RatAdd(Zero, nut.value))
         IN  SumByKey(t, Tail(nuts))

\* services/recipe_service_async.py calculate_recipe(request, items): every
\* lookup is started before any result is examined; the totals are the
\* "value" entries of total_list, rounded to 2 decimals, by "key"
calculate_recipe_async(items) ==
    IF items = <<>>
    THEN RecipeOutcome("Empty ingredient list", 0, NoTotal, 0)
    ELSE IF FirstFailure(items) # 0
    THEN RecipeOutcome("Error fetching ingredient", 0, NoTotal, Len(items))
    ELSE LET sums == SumByKey(<<>>, AllNutrients(items))
         IN  RecipeOutcome("none", 0, [k \in DOMAIN sums |-> Round2(sums[k])],
                           Len(items))

\* routes/recipe_async.py recipe(request, items)
recipe_async(items) ==
    IF items = <<>>
    THEN RecipeOutcome("HTTPException", 422, NoTotal, 0)
    ELSE LET r == calculate_recipe_async(items)
         IN  IF r.err # "none"
             THEN [r EXCEPT !.err = "HTTPException", !.http = 400]
             ELSE [r EXCEPT !.http = 200]

----------------------------------------------------------------------------
(* Ingredient lookups: routes/ingredient.py, services/ingredient_service.py *)
(* and the construction part of routes/ingredient_async.py                  *)

\* helpers.py NUTRIENT_MAP (helpers_async.py holds the same table)
NUTRIENT_MAP ==
    ("208" :> "energy" @@ "204" :> "fat" @@ "203" :> "protein" @@ "205" :> "carbs" @@
     "291" :> "fiber" @@ "269" :> "sugars" @@ "606" :> "sat_fat" @@ "605" :> "trans_fat" @@
     "601" :> "cholesterol" @@ "307" :> "sodium" @@ "301" :> "calcium" @@ "303" :> "iron" @@
     "306" :> "potassium" @@ "328" :> "vitamin_d")

\* name.lower().replace(" ", "_") for the upstream nutrient names that occur
NameKey ==
    ("Protein" :> "protein" @@ "Total lipid (fat)" :> "total_lipid_(fat)" @@
     "Vitamin C, total ascorbic acid" :> "vitamin_c,_total_ascorbic_acid")

\* s.split(",")[0]
RECURSIVE BeforeComma(_)
BeforeComma(s) ==
    IF s = <<>> \/ Head(s) = "," THEN <<>>
    ELSE <<Head(s)>> \o BeforeComma(Tail(s))

\* an entry of the upstream "foodPortions": measureUnit.abbreviation and
\* measureUnit.name (<<>> when absent), amount, and gramWeight (Zero when absent)
FoodPortion(abbreviation, name, amount, gramWeight) ==
    [abbreviation |-> abbreviation, name |-> name, amount |-> amount,
     gramWeight |-> gramWeight]

\* an entry of the upstream "foodNutrients": nutrient.number, nutrient.name, amount
FoodNutrient(number, name, amount) == [number |-> number, name |-> name, amount |-> amount]

\* the upstream food record as the constructors read it
FoodDetails(dataType, servingSizeUnit, servingSize, foodPortions, foodNutrients) ==
    [dataType |-> dataType, servingSizeUnit |-> servingSizeUnit,
     servingSize |-> servingSize, foodPortions |-> foodPortions,
     foodNutrients |-> foodNutrients]

\* the optional amount and unit of a lookup
Scaling(amount_given, amount, unit_given, unit) ==
    [amount_given |-> amount_given, amount |-> amount,
     unit_given |-> unit_given, unit |-> unit]

NoScaling == Scaling(FALSE, Zero, FALSE, <<>>)

\* p["measureUnit"].get("abbreviation") or p["measureUnit"].get("name")
RawUnit(p) == IF p.abbreviation # <<>> THEN p.abbreviation ELSE p.name

\* routes/ingredient.py lines 47-57: a portion per upstream entry that has a
\* unit and a gram weight
RECURSIVE RoutePortions(_)
RoutePortions(foodPortions) ==
    IF foodPortions = <<>> THEN <<>>
    ELSE LET p        == Head(foodPortions)
             unit_can == Lower(Strip(BeforeComma(RawUnit(p))))
         IN  (IF unit_can # <<>> /\ ~IsZero(p.gramWeight)
              THEN <<Portion(unit_can, p.amount, p.gramWeight)>> ELSE <<>>)
             \o RoutePortions(Tail(foodPortions))

\* ingredient_service.py lines 83-94: a portion per upstream entry that has a
\* measureUnit and a gramWeight
RECURSIVE ServicePortions(_)
ServicePortions(foodPortions) ==
    IF foodPortions = <<>> THEN <<>>
    ELSE LET p        == Head(foodPortions)
             unit_can == Lower(Strip(BeforeComma(RawUnit(p))))
         IN  (IF ~IsZero(p.gramWeight)
              THEN <<Portion(unit_can, p.amount, p.gramWeight)>> ELSE <<>>)
             \o ServicePortions(Tail(foodPortions))

\* routes/ingredient_async.py lines 78-94: the unit is measureUnit.name, "g"
\* when there is none
RECURSIVE AsyncPortions(_)
AsyncPortions(foodPortions) ==
    IF foodPortions = <<>> THEN <<>>
    ELSE LET p         == Head(foodPortions)
             unit_name == IF p.name # <<>> THEN p.name ELSE G
         IN  (IF ~IsZero(p.gramWeight)
              THEN <<Portion(unit_name, p.amount, p.gramWeight)>> ELSE <<>>)
             \o AsyncPortions(Tail(foodPortions))

\* routes/ingredient.py lines 72-88: only the numbers NUTRIENT_MAP knows
RECURSIVE RouteNutrients(_)
RouteNutrients(foodNutrients) ==
    IF foodNutrients = <<>> THEN <<>>
    ELSE LET item == Head(foodNutrients)
             key  == DictGet(NUTRIENT_MAP, item.number, "")
         IN  (IF key # "" THEN <<Nutrient(key, item.amount)>> ELSE <<>>)
             \o RouteNutrients(Tail(foodNutrients))

\* ingredient_service.py lines 33-62: five numbers by hand, the rest by NUTRIENT_MAP
RECURSIVE ServiceNutrients(_)
ServiceNutrients(foodNutrients) ==
    IF foodNutrients = <<>> THEN <<>>
    ELSE LET item == Head(foodNutrients)
             num  == item.number
             key  == IF num = "208" THEN "energy"
                     ELSE IF num = "203" THEN "protein"
                     ELSE IF num = "204" THEN "fat"
                     ELSE IF num = "205" THEN "carbs"
                     ELSE IF num = "307" THEN "sodium"
                     ELSE DictGet(NUTRIENT_MAP, num, "")
         IN  (IF key # "" THEN <<Nutrient(key, item.amount)>> ELSE <<>>)
             \o ServiceNutrients(Tail(foodNutrients))

\* routes/ingredient_async.py lines 97-115: every nutrient, keyed by
\* NUTRIENT_MAP or else by its name
AsyncNutrients(foodNutrients) ==
    [i \in 1..Len(foodNutrients) |->
        Nutrient(DictGet(NUTRIENT_MAP, foodNutrients[i].number,
                         NameKey[foodNutrients[i].name]),
                 foodNutrients[i].amount)]

\* no Ingredient was constructed
NoIngredient == [serving |-> Portion(<<>>, Zero, Zero), portions |-> <<>>, nutrients |-> <<>>]

\* the outcome of a lookup: exception and HTTP status (0 outside a route), the
\* calls made to _search_usda and _get_food, the Ingredient as constructed
\* and as returned
LookupOutcome(err, status, searches, fetches, built, returned) ==
    [err |-> err, status |-> status, searches |-> searches, fetches |-> fetches,
     built |-> built, ing |-> returned]

LookupFailure(err, status, searches, fetches) ==
    LookupOutcome(err, status, searches, fetches, NoIngredient, NoIngredient)

\* routes/ingredient.py lines 45-113: portions, serving, nutrients, scaling
\* routes/ingredient.py lines 107-111: scale when amount and unit are given;
\* a ValueError of scale becomes 400
route_scale(built, scaled, scaling, searches) ==
    IF ~(scaling.amount_given /\ scaling.unit_given)
    THEN LookupOutcome("none", 200, searches, 1, built, built)
    ELSE IF scaled.err = NoError
    THEN LookupOutcome("none", 200, searches, 1, built, scaled.ing)
    ELSE IF scaled.err.kind = "ZeroDivisionError"
    THEN LookupFailure("ZeroDivisionError", 500, searches, 1)
    ELSE LookupFailure("HTTPException", 400, searches, 1)

route_build(details, scaling, searches) ==
    LET found    == RoutePortions(details.foodPortions)
        su       == Lower(Strip(details.servingSizeUnit))
        portions == IF found = <<>> /\ details.dataType = "Branded"
                       /\ su # <<>> /\ ~IsZero(details.servingSize)
                    THEN <<Portion(su, Dec(1, 0), details.servingSize)>>
                    ELSE found
        serving  == IF portions # <<>> THEN portions[1] ELSE default_portion
        built     == [serving |-> serving, portions |-> portions,
                     nutrients |-> RouteNutrients(details.foodNutrients)]
    IN  route_scale(built, scale(built, scaling.amount, scaling.unit), scaling, searches)

\* a route that searches whenever q is given
route_get_ingredient_AlwaysSearch(q, fdc_id, search, fetch, details, scaling) ==
    IF fdc_id = 0 /\ ~q THEN LookupFailure("HTTPException", 422, 0, 0)
    ELSE IF q /\ search.kind = "error" THEN LookupFailure("ValueError", 500, 1, 0)
    ELSE IF q /\ search.kind = "empty" THEN LookupFailure("HTTPException", 404, 1, 0)
    ELSE IF fetch # "ok" THEN LookupFailure("HTTPException", 502, IF q THEN 1 ELSE 0, 1)
    ELSE route_build(details, scaling, IF q THEN 1 ELSE 0)

\* routes/ingredient.py get_ingredient: q is TRUE when a search text is
\* given, fdc_id is 0 when none is given
route_get_ingredient(q, fdc_id, search, fetch, details, scaling) ==
    IF fdc_id = 0 /\ ~q THEN LookupFailure("HTTPException", 422, 0, 0)
    ELSE LET searched == fdc_id = 0
             n        == IF searched THEN 1 ELSE 0
         IN  IF searched /\ search.kind = "error"
             THEN LookupFailure("ValueError", 500, 1, 0)
             ELSE IF searched /\ search.kind = "empty"
             THEN LookupFailure("HTTPException", 404, 1, 0)
             ELSE IF fetch # "ok" THEN LookupFailure("HTTPException", 502, n, 1)
             ELSE route_build(details, scaling, n)

\* ingredient_service.py lines 107-108: scale when amount is given and unit
\* is not empty; the exceptions of scale pass through
service_scale(built, scaled, scaling, searches) ==
    IF ~(scaling.amount_given /\ scaling.unit_given /\ scaling.unit # <<>>)
    THEN LookupOutcome("none", 0, searches, 1, built, built)
    ELSE IF scaled.err = NoError
    THEN LookupOutcome("none", 0, searches, 1, built, scaled.ing)
    ELSE LookupFailure(IF scaled.err.kind = "ZeroDivisionError"
                       THEN "ZeroDivisionError" ELSE "ValueError", 0, searches, 1)

\* ingredient_service.py lines 31-110: nutrients, default portion, portions, scaling
service_build(details, scaling, searches) ==
    LET built   == [serving |-> default_portion,
                   portions |-> <<default_portion>> \o ServicePortions(details.foodPortions),
                   nutrients |-> ServiceNutrients(details.foodNutrients)]
    IN  service_scale(built, scale(built, scaling.amount, scaling.unit), scaling, searches)

\* services/ingredient_service.py get_ingredient
service_get_ingredient(q, fdc_id, search, fetch, details, scaling) ==
    LET searched == q /\ fdc_id = 0
        n        == IF searched THEN 1 ELSE 0
    IN  IF searched /\ search.kind # "found"
        THEN LookupFailure("ValueError", 0, 1, 0)
        ELSE IF ~searched /\ fdc_id = 0
        THEN LookupFailure("ValueError Must provide q or fdc_id", 0, 0, 0)
        ELSE IF fetch # "ok" THEN LookupFailure("ValueError", 0, n, 1)
        ELSE service_build(details, scaling, n)

\* routes/ingredient_async.py lines 129-130: scale when amount is given and
\* unit is not empty; an exception of scale is an internal server error
async_scale(built, scaled, scaling, searches) ==
    IF ~(scaling.amount_given /\ scaling.unit_given /\ scaling.unit # <<>>)
    THEN LookupOutcome("none", 200, searches, 1, built, built)
    ELSE IF scaled.err = NoError
    THEN LookupOutcome("none", 200, searches, 1, built, scaled.ing)
    ELSE LookupFailure(IF scaled.err.kind = "ZeroDivisionError"
                       THEN "ZeroDivisionError" ELSE "ValueError", 500, searches, 1)

\* routes/ingredient_async.py lines 66-132: default portion, portions,
\* nutrients, scaling
async_build(details, scaling, searches) ==
    LET built   == [serving |-> default_portion,
                   portions |-> <<default_portion>> \o AsyncPortions(details.foodPortions),
                   nutrients |-> AsyncNutrients(details.foodNutrients)]
    IN  async_scale(built, scale(built, scaling.amount, scaling.unit), scaling, searches)

\* routes/ingredient_async.py get_ingredient on a fresh limiter and an empty
\* food cache, where no rate check refuses
async_get_ingredient(q, fdc_id, search, fetch, details, scaling) ==
    LET searched == q /\ fdc_id = 0
        n        == IF searched THEN 1 ELSE 0
    IN  IF searched /\ search.kind = "error"
        THEN LookupFailure("HTTPException", 502, 1, 0)
        ELSE IF searched /\ search.kind = "empty"
        THEN LookupFailure("HTTPException", 404, 1, 0)
        ELSE IF ~searched /\ fdc_id = 0
        THEN LookupFailure("HTTPException", 422, 0, 0)
        ELSE IF fetch = "not found" THEN LookupFailure("HTTPException", 404, n, 1)
        ELSE IF fetch # "ok" THEN LookupFailure("HTTPException", 502, n, 1)
        ELSE async_build(details, scaling, n)

----------------------------------------------------------------------------
(* Inputs                                                                   *)

MaxSteps == 2

CUP == <<"c","u","p">>

TBSP == <<"t","b","s","p">>

\* tests/test_server.py test_ingredient_scale: one 100 g portion, 10 g protein
TestFood ==
    [serving   |-> default_portion,
     portions  |-> <<default_portion>>,
     nutrients |-> <<Nutrient("protein", Dec(10, 0))>>]

\* an ingredient with upstream portions: two cup entries of different
\* gram weight per cup, and a tablespoon
Flour ==
    [serving   |-> default_portion,
     portions  |-> <<default_portion,
                     Portion(CUP, Dec(1, 0), Dec(250, 0)),
                     Portion(<<"C","u","p">>, Dec(2, 0), Dec(480, 0)),
                     Portion(TBSP, Dec(1, 0), Dec(14, 0))>>,
     nutrients |-> <<Nutrient("protein", Dec(10, 0)), Nutrient("fat", Dec(12, 1))>>]

Ingredients == {TestFood, Flour}

ScaleAmounts == {Dec(-1, 0), Dec(0, 0), Dec(1, 0), Dec(2, 0)}

ScaleUnits ==
    {G, <<"g","r","a","m","s">>, CUP, <<"c","u","p","s">>, TBSP,
     <<"T","a","b","l","e","s","p","o","o","n","s">>, <<" ","L","B"," ">>,
     <<"p","i","e","c","e">>}

\* the test's 200 g, the original 100 g, two very small servings, and an
\* unsupported unit as a caller may type it
ScaleExamples ==
    {<<Dec(200, 0), G>>, <<Dec(100, 0), G>>, <<Dec(100, 0), <<"G","r","a","m","s">>>>,
     <<Dec(1, 2), G>>, <<Dec(1, 2), <<"m","g">>>>,
     <<Dec(1, 0), <<" ","P","i","e","c","e"," ">>>>}

ScaleCalls == (ScaleAmounts \X ScaleUnits) \cup ScaleExamples

ConvAmounts ==
    {Dec(-1, 0), Dec(0, 0), Dec(1, 3), Dec(2, 1), Dec(1, 0), Dec(2, 0), Dec(7, 0),
     Dec(33, 0)}

ConvUnits ==
    DOMAIN MASS_UNITS \cup DOMAIN VOLUME_TO_ML \cup
    {<<"G","r","a","m","s">>, <<" ","c","u","p","s"," ">>, <<"f","l","_","o","z">>,
     <<"f","l","u","i","d"," ","o","u","n","c","e","s">>, <<"p","i","e","c","e">>,
     <<"P","i","e","c","e">>, <<>>}

\* the documented examples whose amounts lie outside ConvAmounts
ConvExamples ==
    {<<Dec(100, 0), G, <<"o","z">>>>,
     <<Dec(5, 1), <<"g","a","l","l","o","n">>, CUP>>,
     <<Dec(1000, 0), <<"m","g">>, G>>,
     <<Dec(283495, 4), G, <<"o","z">>>>,
     <<Dec(500, 0), <<"m","l">>, CUP>>}

ConvCalls == (ConvAmounts \X ConvUnits \X ConvUnits) \cup ConvExamples

\* a unit string as a caller may type it: upper case, padded with whitespace
UpperChar(c) ==
    IF \E i \in 1..Len(LOWERCASE) : LOWERCASE[i] = c
    THEN UPPERCASE[CHOOSE i \in 1..Len(LOWERCASE) : LOWERCASE[i] = c]
    ELSE c

Upper(s) == [i \in 1..Len(s) |-> UpperChar(s[i])]

Padded(s) == <<" ">> \o s \o <<"\t">>

\* every key of the synonym table as written, in upper case and padded, and
\* strings the table does not know
NormInputs ==
    LET keys    == DOMAIN UNIT_SYNONYMS
        unknown == {<<"p","i","e","c","e">>, <<"f","l","_","o","z">>, <<"c","u","p","s","s">>,
                    <<"f","l","u","i","d"," "," ","o","u","n","c","e">>, <<>>}
        plain   == keys \cup unknown
    IN  plain \cup {Upper(x) : x \in plain} \cup {Padded(Upper(x)) : x \in plain}

\* the longest request that is enumerated
MaxItems == 2

Butter ==
    Found(<<NamedNutrient("fat", "Total lipid (fat)", Dec(12, 1)),
            NamedNutrient("protein", "Protein", Dec(10, 0))>>)

\* the same key under another upstream name
Milk ==
    Found(<<NamedNutrient("fat", "Total fat", Dec(5, 1)),
            NamedNutrient("energy", "Energy", Dec(52, 0))>>)

\* a nutrient outside NUTRIENT_MAP, as routes/ingredient_async.py keys it
Lemon ==
    Found(<<NamedNutrient("vitamin_c,_total_ascorbic_acid",
                          "Vitamin C, total ascorbic acid", Dec(53, 0)),
            NamedNutrient("protein", "Protein", Dec(1104, 3))>>)

\* an ingredient without nutrients
Water == Found(<<>>)

RecipeFoods == {Butter, Milk, Lemon, Water, LookupFailed, RateLimited}

RECURSIVE SeqsUpTo(_, _)
SeqsUpTo(S, n) ==
    IF n = 0 THEN {<<>>}
    ELSE LET shorter == SeqsUpTo(S, n - 1)
         IN  shorter \cup {Append(s, x) : s \in shorter, x \in S}

RecipeRequests == SeqsUpTo(RecipeFoods, MaxItems)

\* services/ingredient_service.py and routes/ingredient.py keep a nutrient
\* only if NUTRIENT_MAP knows its number ("if key:")
TrackedOnly(items) ==
    \A i \in 1..Len(items) : \A j \in 1..Len(items[i].nutrients) :
        items[i].nutrients[j].key \in NUTRIENT_KEYS

\* the sync lookups call the upstream without a rate limiter
Unlimited(items) == \A i \in 1..Len(items) : items[i] # RateLimited

NoAggregation == [items |-> <<>>, impl |-> "none", out |-> RecipeOutcome("none", 0, NoTotal, 0)]

----------------------------------------------------------------------------
(* Sliding-window rate limiter and the async ingredient endpoint            *)
(*   services/rate_limiter.py    RateLimiter, usda_rate_limiter             *)
(*   helpers_async.py            _check_rate_limit, _search_usda, _get_food *)
(*   server_async.py             add_rate_limit_headers                     *)
(*   routes/ingredient_async.py  get_ingredient                             *)
(* usda_rate_limiter allows 1000 requests per 3600 seconds and the food     *)
(* cache holds 1024 foods; the algorithm is kept and the three numbers are  *)
(* scaled down.  time.time() is a whole number of seconds, and one request  *)
(* is handled within one reading of the clock.                              *)

\* RateLimiter.max_requests of usda_rate_limiter, scaled down from 1000
max_requests == 2

\* RateLimiter.window_seconds of usda_rate_limiter, scaled down from 3600
window_seconds == 1

\* settings.MAX_CACHE_SIZE, scaled down from 1024
MAX_CACHE_SIZE == 2

\* the clock runs from 0 to MaxTime
MaxTime == 2

\* requests handled in one behaviour
MaxCalls == 3

\* request.client.host
IPS == {"10.0.0.1", "10.0.0.2"}

\* fdc ids known upstream; 0 stands for an absent (or zero) fdc_id, which is falsy
FDC_IDS == {1, 2}

\* RateLimiter._clean_old_requests: pop from the left while older than the window
RECURSIVE clean_old_requests(_, _)
clean_old_requests(log, current_time) ==
    IF log # <<>> /\ log[1] < current_time - window_seconds
    THEN clean_old_requests(Tail(log), current_time)
    ELSE log

\* an increment that compares with > and so lets one request too many through
increment_OffByOne(logs, ip, current_time) ==
    LET cleaned == clean_old_requests(logs[ip], current_time)
    IN  IF Len(cleaned) > max_requests
        THEN [allowed |-> FALSE, remaining |-> 0,
              logs |-> [logs EXCEPT ![ip] = cleaned]]
        ELSE [allowed |-> TRUE, remaining |-> max_requests - (Len(cleaned) + 1),
              logs |-> [logs EXCEPT ![ip] = Append(cleaned, current_time)]]

\* an increment that records the timestamp of a refused request as well
increment_RecordsRefused(logs, ip, current_time) ==
    LET cleaned == clean_old_requests(logs[ip], current_time)
    IN  IF Len(cleaned) >= max_requests
        THEN [allowed |-> FALSE, remaining |-> 0,
              logs |-> [logs EXCEPT ![ip] = Append(Tail(cleaned), current_time)]]
        ELSE [allowed |-> TRUE, remaining |-> max_requests - (Len(cleaned) + 1),
              logs |-> [logs EXCEPT ![ip] = Append(cleaned, current_time)]]

\* a check_limit that counts itself
check_limit_Counting(logs, ip, current_time) ==
    LET cleaned == clean_old_requests(logs[ip], current_time)
    IN  [allowed   |-> Len(cleaned) < max_requests,
         remaining |-> IF Len(cleaned) >= max_requests THEN 0
                       ELSE max_requests - Len(cleaned),
         logs      |-> [logs EXCEPT ![ip] =
                           IF Len(cleaned) < max_requests
                           THEN Append(cleaned, current_time) ELSE cleaned]]

\* RateLimiter.check_limit: cleans the ip's log and reports, records nothing
check_limit(logs, ip, current_time) ==
    LET cleaned == clean_old_requests(logs[ip], current_time)
    IN  [allowed   |-> Len(cleaned) < max_requests,
         remaining |-> IF Len(cleaned) >= max_requests THEN 0
                       ELSE max_requests - Len(cleaned),
         logs      |-> [logs EXCEPT ![ip] = cleaned]]

\* RateLimiter.increment: cleans the ip's log, then appends the time unless the log is full
increment(logs, ip, current_time) ==
    LET cleaned == clean_old_requests(logs[ip], current_time)
    IN  IF Len(cleaned) >= max_requests
        THEN [allowed |-> FALSE, remaining |-> 0,
              logs |-> [logs EXCEPT ![ip] = cleaned]]
        ELSE [allowed |-> TRUE, remaining |-> max_requests - (Len(cleaned) + 1),
              logs |-> [logs EXCEPT ![ip] = Append(cleaned, current_time)]]

\* _check_rate_limit: one increment; HTTPException(429) when it is refused
check_rate_limit(logs, ip, current_time) ==
    LET inc == increment(logs, ip, current_time)
    IN  [err   |-> IF inc.allowed THEN "none" ELSE "HTTPException",
         logs  |-> inc.logs,
         units |-> IF inc.allowed THEN 1 ELSE 0]

\* what the upstream search answers: a failure, no foods, or a first food
SearchOutcomes ==
    {[kind |-> "error", fdcId |-> 0], [kind |-> "empty", fdcId |-> 0]}
        \cup {[kind |-> "found", fdcId |-> f] : f \in FDC_IDS}

\* what the upstream food endpoint answers
FetchOutcomes == {"ok", "not found", "error"}

\* _search_usda: rate check first, then the upstream call
search_usda(logs, ip, search, current_time) ==
    LET chk == check_rate_limit(logs, ip, current_time)
    IN  IF chk.err # "none"
        THEN [err |-> chk.err, results |-> 0, logs |-> chk.logs, units |-> chk.units]
        ELSE IF search.kind = "error"
        THEN [err |-> "ValueError", results |-> 0, logs |-> chk.logs, units |-> chk.units]
        ELSE [err |-> "none", results |-> search.fdcId, logs |-> chk.logs,
              units |-> chk.units]

\* food_cache as the sequence of its keys in insertion order
InCache(cache, fdc_id) == \E i \in 1..Len(cache) : cache[i] = fdc_id

\* a store that never evicts
cache_store_NoEvict(cache, fdc_id) ==
    IF InCache(cache, fdc_id) THEN cache ELSE Append(cache, fdc_id)

\* _get_food lines 215-221: when the cache is full its first key is popped,
\* then food_cache[fdc_id] is set; a key already present keeps its place
cache_store(cache, fdc_id) ==
    LET room == IF Len(cache) >= MAX_CACHE_SIZE THEN Tail(cache) ELSE cache
    IN  IF InCache(room, fdc_id) THEN room ELSE Append(room, fdc_id)

\* _get_food: a cached food is returned before any rate check; otherwise rate
\* check, upstream call, and the food is cached (the first key is popped when full)
get_food(logs, cache, ip, fdc_id, fetch, current_time) ==
    IF InCache(cache, fdc_id)
    THEN [err |-> "none", logs |-> logs, cache |-> cache, units |-> 0]
    ELSE LET chk == check_rate_limit(logs, ip, current_time)
         IN  IF chk.err # "none"
             THEN [err |-> chk.err, logs |-> chk.logs, cache |-> cache, units |-> chk.units]
             ELSE IF fetch = "ok"
             THEN [err |-> "none", logs |-> chk.logs, units |-> chk.units,
                   cache |-> cache_store(cache, fdc_id)]
             ELSE [err |-> IF fetch = "not found" THEN "ValueError not found"
                           ELSE "ValueError",
                   logs |-> chk.logs, cache |-> cache, units |-> chk.units]

\* the response of the endpoint and what it left behind
Response(status, logs, cache, units) ==
    [status |-> status, logs |-> logs, cache |-> cache, units |-> units]

\* get_ingredient of routes/ingredient_async.py, without amount and unit:
\* q is TRUE when a search text is given, fdc_id is 0 when none is given
get_ingredient(logs, cache, ip, q, fdc_id, search, fetch, current_time) ==
    LET s == IF q /\ fdc_id = 0
             THEN search_usda(logs, ip, search, current_time)
             ELSE [err |-> "none", results |-> fdc_id, logs |-> logs, units |-> 0]
        g == get_food(s.logs, cache, ip, s.results, fetch, current_time)
    IN  IF s.err = "HTTPException" THEN Response(429, s.logs, cache, s.units)
        ELSE IF s.err = "ValueError" THEN Response(502, s.logs, cache, s.units)
        ELSE IF q /\ fdc_id = 0 /\ search.kind = "empty"
        THEN Response(404, s.logs, cache, s.units)
        ELSE IF s.results = 0 THEN Response(422, s.logs, cache, s.units)
        ELSE Response(IF g.err = "none" THEN 200
                      ELSE IF g.err = "HTTPException" THEN 429
                      ELSE IF g.err = "ValueError not found" THEN 404
                      ELSE 502,
                      g.logs, g.cache, s.units + g.units)

\* the times of a log that lie in the window ending at current_time
Preceding(times, current_time) ==
    SelectSeq(times, LAMBDA t : t >= current_time - window_seconds)

\* no request handled yet
NoRequest ==
    [called |-> FALSE, ip |-> "", q |-> FALSE, fdc_id |-> 0, cached |-> FALSE,
     status |-> 0, units |-> 0, prior |-> 0]

\* the limiter and the cache after import: no logs, empty cache, clock at 0;
\* accepted is the history of the times of the requests not answered 429
NoLimiter ==
    [now |-> 0, calls |-> 0, logs |-> [ip \in IPS |-> <<>>], cache |-> <<>>,
     accepted |-> [ip \in IPS |-> <<>>], last |-> NoRequest]

----------------------------------------------------------------------------
(* Inputs of the ingredient lookups                                         *)

\* a food without upstream portions
Apple ==
    FoodDetails("Foundation", <<>>, Zero, <<>>,
                <<FoodNutrient("203", "Protein", Dec(10, 0))>>)

\* a food with upstream portions: a unit given by name only, a unit with an
\* abbreviation, an entry without gram weight; and a nutrient whose number
\* NUTRIENT_MAP does not know
Oats ==
    FoodDetails("SR Legacy", <<>>, Zero,
                <<FoodPortion(<<>>, <<"C","u","p",","," ","d","r","y">>, Dec(1, 0), Dec(240, 0)),
                  FoodPortion(TBSP, <<"t","a","b","l","e","s","p","o","o","n">>,
                              Dec(1, 0), Dec(14, 0)),
                  FoodPortion(<<>>, <<"s","l","i","c","e">>, Dec(1, 0), Zero)>>,
                <<FoodNutrient("203", "Protein", Dec(10, 0)),
                  FoodNutrient("204", "Total lipid (fat)", Dec(12, 1)),
                  FoodNutrient("401", "Vitamin C, total ascorbic acid", Dec(53, 0))>>)

\* a branded food: no portions, a serving size
Cereal ==
    FoodDetails("Branded", <<"G">>, Dec(30, 0), <<>>,
                <<FoodNutrient("203", "Protein", Dec(10, 0))>>)

FoodRecords == {Apple, Oats, Cereal}

\* no scaling, amount without unit, an empty unit, and scalings to grams, to
\* a cup and to an unsupported unit; the routes accept only amount > 0
Scalings ==
    {NoScaling, Scaling(TRUE, Dec(1, 0), FALSE, <<>>), Scaling(TRUE, Dec(1, 0), TRUE, <<>>),
     Scaling(TRUE, Dec(100, 0), TRUE, G), Scaling(TRUE, Dec(200, 0), TRUE, G),
     Scaling(TRUE, Dec(1, 0), TRUE, CUP),
     Scaling(TRUE, Dec(2, 0), TRUE, <<"p","i","e","c","e">>)}

\* a lookup request and what the upstream answers to it
LookupRequests ==
    [q : BOOLEAN, fdc_id : {0} \cup FDC_IDS, search : SearchOutcomes,
     fetch : FetchOutcomes, details : FoodRecords, scaling : Scalings]

\* no lookup made
NoLookup ==
    [impl |-> "none",
     req  |-> [q |-> FALSE, fdc_id |-> 0, search |-> [kind |-> "empty", fdcId |-> 0],
               fetch |-> "ok", details |-> Apple, scaling |-> NoScaling],
     out  |-> LookupFailure("none", 0, 0, 0)]

----------------------------------------------------------------------------
(* Threads calling the rate limiter: every public method of RateLimiter     *)
(* runs "with self.lock", so a call is two steps, entering the lock and     *)
(* reading the clock, then the rest of the body and the release.            *)

\* completed calls in one behaviour
MaxOps == 5

THREADS == {"t1", "t2"}

\* a thread outside the limiter
Idle == [pc |-> "idle", op |-> "none", ip |-> "", current_time |-> 0]

\* no call completed yet
NoResult ==
    [called |-> FALSE, op |-> "none", ip |-> "", current_time |-> 0,
     allowed |-> FALSE, remaining |-> 0, prior |-> 0, denied |-> 0]

\* the limiter after construction, with its lock free and both threads outside;
\* accepted is the history of the timestamps of the increments that were
\* allowed, denied counts the increments refused since the last allowed one
UnusedLimiter ==
    [now |-> 0, ops |-> 0, logs |-> [ip \in IPS |-> <<>>], lock |-> "free",
     threads |-> [t \in THREADS |-> Idle],
     accepted |-> [ip \in IPS |-> <<>>], denied |-> [ip \in IPS |-> 0],
     last |-> NoResult]

\* the method a thread is in, applied to the logs
Call(op, logs, ip, current_time) ==
    IF op = "increment" THEN increment(logs, ip, current_time)
    ELSE check_limit(logs, ip, current_time)

----------------------------------------------------------------------------
(* Concurrent _get_food calls.  A coroutine gives up control only at        *)
(* "await http_client.get(...)": the cache look-up and the rate check run   *)
(* before it without interruption, the store into the cache after it.       *)

\* the coroutines that may be inside _get_food at once
TASKS == {"a", "b"}

\* the foods the coroutines ask for: one more than the cache holds
CACHED_IDS == {1, 2, 3}

\* a coroutine outside _get_food
NoTask == [pc |-> "idle", fdc_id |-> 0]

\* the client whose requests the coroutines serve
CLIENT == "10.0.0.1"

\* nothing has happened in _get_food yet
NoEvent == [called |-> FALSE, task |-> "", fdc_id |-> 0, event |-> "none", full |-> FALSE]

\* food_cache and the limiter after import, no coroutine inside _get_food
EmptyCache ==
    [now |-> 0, logs |-> [ip \in IPS |-> <<>>], cache |-> <<>>,
     tasks |-> [t \in TASKS |-> NoTask], last |-> NoEvent]

(***************************************************************************)
(* services/cache_service.py, TTLCache.  The cache is a dict: a sequence   *)
(* of entries in insertion order, at most one per key.  _cache is built    *)
(* with maxsize 1024 and ttl 3600; both are scaled down.  A value of 0     *)
(* stands for None.                                                        *)
(***************************************************************************)
maxsize == 2
ttl == 1
CACHE_KEYS == {"k1", "k2", "k3"}
CACHE_VALUES == {1, 2}

Entry(key, value, expires) == [key |-> key, value |-> value, expires |-> expires]

\* position of key in the dict, 0 when "key not in self.cache"
KeyIndex(cache, key) ==
    IF \E i \in 1..Len(cache) : cache[i].key = key
    THEN CHOOSE i \in 1..Len(cache) : cache[i].key = key
    ELSE 0

\* del self.cache[k] for the entry at position i
DelEntry(cache, i) == SubSeq(cache, 1, i - 1) \o SubSeq(cache, i + 1, Len(cache))

\* min(self.cache.keys(), key=expires): the first of the smallest expiries
oldest_key(cache) ==
    CHOOSE i \in 1..Len(cache) :
        \A j \in 1..Len(cache) :
            \/ cache[i].expires < cache[j].expires
            \/ cache[i].expires = cache[j].expires /\ i <= j

\* TTLCache.get: the value, or None for an absent or an expired key, which
\* is deleted
cache_get(cache, key, current_time) ==
    LET i == KeyIndex(cache, key)
    IN  IF i = 0 THEN [cache |-> cache, value |-> 0]
        ELSE IF current_time > cache[i].expires
        THEN [cache |-> DelEntry(cache, i), value |-> 0]
        ELSE [cache |-> cache, value |-> cache[i].value]

\* TTLCache.set: at capacity the entry with the earliest expiry goes first,
\* then the key is assigned
cache_set(cache, key, value, current_time) ==
    LET room  == IF Len(cache) >= maxsize THEN DelEntry(cache, oldest_key(cache))
                 ELSE cache
        i     == KeyIndex(room, key)
        entry == Entry(key, value, current_time + ttl)
    IN  IF i > 0 THEN [room EXCEPT ![i] = entry] ELSE Append(room, entry)

NoCacheCall == [called |-> FALSE, op |-> "none", key |-> "", value |-> 0,
                present |-> FALSE, full |-> FALSE]

\* a TTLCache after __init__
NewTTLCache == [now |-> 0, cache |-> <<>>, last |-> NoCacheCall]

----------------------------------------------------------------------------
(* State machine                                                            *)

\* no call back (to_unit to from_unit) of a converter result recorded
NoBack == [called |-> FALSE, err |-> NoError, val |-> Zero]

NoCall == [called |-> FALSE, amount |-> Zero, from |-> <<>>, to |-> <<>>,
           err |-> NoError, val |-> Zero, back |-> NoBack]

\* no normalize_unit call recorded
NoNorm == [input |-> <<>>, calls |-> 0, once |-> <<>>, twice |-> <<>>]

\* one request's Ingredient, as constructed; no converter call recorded
Init ==
    /\ ing \in Ingredients
    /\ base = ing
    /\ hist = <<>>
    /\ steps = 0
    /\ conv = NoCall
    /\ norm = NoNorm
    /\ agg = NoAggregation
    /\ lim = NoLimiter
    /\ look = NoLookup

\* the last two entries of the call history
Last2(h) == IF Len(h) <= 2 THEN h ELSE SubSeq(h, Len(h) - 1, Len(h))

\* ingredient.scale(amount, unit)
Scale(amount, unit) ==
    /\ steps < MaxSteps
    /\ LET r == scale(ing, amount, unit) IN
       /\ ing' = r.ing
       /\ hist' = Last2(Append(hist, [pre |-> ing, amount |-> amount, unit |-> unit,
                                      err |-> r.err]))
    /\ steps' = steps + 1
    /\ UNCHANGED <<base, conv, norm, agg, lim, look>>

Next == \E c \in ScaleCalls : Scale(c[1], c[2])

Spec == Init /\ [][Next]_vars

\* a converter call on enumerated inputs, not yet made
ConvInit ==
    /\ ing = TestFood
    /\ base = ing
    /\ hist = <<>>
    /\ steps = 0
    /\ norm = NoNorm
    /\ agg = NoAggregation
    /\ lim = NoLimiter
    /\ look = NoLookup
    /\ \E c \in ConvCalls :
          conv = [called |-> FALSE, amount |-> c[1], from |-> c[2], to |-> c[3],
                  err |-> NoError, val |-> Zero, back |-> NoBack]

\* convert_units(amount, from_unit, to_unit)
Convert ==
    /\ ~conv.called
    /\ LET r == convert_units(conv.amount, conv.from, conv.to) IN
       conv' = [conv EXCEPT !.called = TRUE, !.err = r.err, !.val = r.val]
    /\ UNCHANGED <<ing, base, hist, steps, norm, agg, lim, look>>

\* convert_units(result, to_unit, from_unit): the returned value converted back
ConvertBack ==
    /\ conv.called
    /\ conv.err = NoError
    /\ ~conv.back.called
    /\ LET r == convert_units(conv.val, conv.to, conv.from) IN
       conv' = [conv EXCEPT !.back = [called |-> TRUE, err |-> r.err, val |-> r.val]]
    /\ UNCHANGED <<ing, base, hist, steps, norm, agg, lim, look>>

ConvNext == Convert

ConvSpec == ConvInit /\ [][ConvNext]_vars

RoundTripNext == Convert \/ ConvertBack

\* a converter call followed by the conversion of its result back
RoundTripSpec == ConvInit /\ [][RoundTripNext]_vars

\* normalize_unit(unit), and normalize_unit of its result
Normalize ==
    /\ norm.calls < 2
    /\ norm' = IF norm.calls = 0
               THEN [norm EXCEPT !.calls = 1, !.once = normalize_unit(norm.input)]
               ELSE [norm EXCEPT !.calls = 2, !.twice = normalize_unit(norm.once)]
    /\ UNCHANGED <<ing, base, hist, steps, conv, agg, lim, look>>

\* a unit string on enumerated inputs, not yet normalized
NormInit ==
    /\ ing = TestFood
    /\ base = ing
    /\ hist = <<>>
    /\ steps = 0
    /\ conv = NoCall
    /\ agg = NoAggregation
    /\ lim = NoLimiter
    /\ look = NoLookup
    /\ \E x \in NormInputs : norm = [NoNorm EXCEPT !.input = x]

NormNext == Normalize

NormSpec == NormInit /\ [][NormNext]_vars

----------------------------------------------------------------------------
(* State machine of the recipe aggregators                                  *)

\* a request on enumerated items, not yet aggregated
RecipeInit ==
    /\ ing = TestFood
    /\ base = ing
    /\ hist = <<>>
    /\ steps = 0
    /\ conv = NoCall
    /\ norm = NoNorm
    /\ \E r \in RecipeRequests : agg = [NoAggregation EXCEPT !.items = r]
    /\ lim = NoLimiter
    /\ look = NoLookup

\* the recipe service: calculate_recipe(items)
CalculateRecipe ==
    /\ agg.impl = "none"
    /\ TrackedOnly(agg.items)
    /\ Unlimited(agg.items)
    /\ agg' = [agg EXCEPT !.impl = "calculate_recipe", !.out = calculate_recipe(agg.items)]
    /\ UNCHANGED <<ing, base, hist, steps, conv, norm, lim, look>>

\* POST /recipe of server.py
Recipe ==
    /\ agg.impl = "none"
    /\ TrackedOnly(agg.items)
    /\ Unlimited(agg.items)
    /\ agg' = [agg EXCEPT !.impl = "recipe", !.out = recipe(agg.items)]
    /\ UNCHANGED <<ing, base, hist, steps, conv, norm, lim, look>>

\* the async recipe service called on its own
CalculateRecipeAsync ==
    /\ agg.impl = "none"
    /\ agg' = [agg EXCEPT !.impl = "calculate_recipe_async",
                          !.out = calculate_recipe_async(agg.items)]
    /\ UNCHANGED <<ing, base, hist, steps, conv, norm, lim, look>>

\* POST /recipe of server_async.py
RecipeAsync ==
    /\ agg.impl = "none"
    /\ agg' = [agg EXCEPT !.impl = "recipe_async", !.out = recipe_async(agg.items)]
    /\ UNCHANGED <<ing, base, hist, steps, conv, norm, lim, look>>

RecipeNext == CalculateRecipe \/ Recipe \/ CalculateRecipeAsync \/ RecipeAsync

RecipeSpec == RecipeInit /\ [][RecipeNext]_vars

----------------------------------------------------------------------------
(* State machine of the rate-limited async ingredient endpoint              *)

LimiterInit ==
    /\ ing = TestFood
    /\ base = ing
    /\ hist = <<>>
    /\ steps = 0
    /\ conv = NoCall
    /\ norm = NoNorm
    /\ agg = NoAggregation
    /\ lim = NoLimiter
    /\ look = NoLookup

\* one GET /ingredient/ of server_async.py: the middleware's check_limit, then
\* get_ingredient with what the upstream answers
GetIngredient ==
    /\ lim.calls < MaxCalls
    /\ \E ip \in IPS, q \in BOOLEAN, fdc_id \in {0} \cup FDC_IDS,
          search \in SearchOutcomes, fetch \in FetchOutcomes :
          LET mw    == check_limit(lim.logs, ip, lim.now)
              r     == get_ingredient(mw.logs, lim.cache, ip, q, fdc_id,
                                      search, fetch, lim.now)
              food  == IF q /\ fdc_id = 0 THEN search.fdcId ELSE fdc_id
              prior == Preceding(lim.accepted[ip], lim.now)
          IN  lim' = [now      |-> lim.now,
                      calls    |-> lim.calls + 1,
                      logs     |-> r.logs,
                      cache    |-> r.cache,
                      accepted |-> [lim.accepted EXCEPT ![ip] =
                                       IF r.status = 429 THEN prior
                                       ELSE Append(prior, lim.now)],
                      last     |-> [called |-> TRUE, ip |-> ip, q |-> q,
                                    fdc_id |-> fdc_id,
                                    cached |-> InCache(lim.cache, food),
                                    status |-> r.status, units |-> r.units,
                                    prior  |-> Len(prior)]]
    /\ UNCHANGED <<ing, base, hist, steps, conv, norm, agg, look>>

\* a second passes
Tick ==
    /\ lim.now < MaxTime
    /\ lim' = [lim EXCEPT !.now = @ + 1]
    /\ UNCHANGED <<ing, base, hist, steps, conv, norm, agg, look>>

LimiterNext == GetIngredient \/ Tick

LimiterSpec == LimiterInit /\ [][LimiterNext]_vars

----------------------------------------------------------------------------
(* State machine of the ingredient lookups                                  *)

\* a request, not yet served
LookupInit ==
    /\ ing = TestFood
    /\ base = ing
    /\ hist = <<>>
    /\ steps = 0
    /\ conv = NoCall
    /\ norm = NoNorm
    /\ agg = NoAggregation
    /\ lim = NoLimiter
    /\ \E r \in LookupRequests : look = [NoLookup EXCEPT !.req = r]

\* GET /ingredient of server.py
RouteLookup ==
    /\ look.impl = "none"
    /\ look' = [look EXCEPT !.impl = "route",
                   !.out = route_get_ingredient(look.req.q, look.req.fdc_id,
                               look.req.search, look.req.fetch, look.req.details,
                               look.req.scaling)]
    /\ UNCHANGED <<ing, base, hist, steps, conv, norm, agg, lim>>

\* the ingredient service, as the recipe service calls it
ServiceLookup ==
    /\ look.impl = "none"
    /\ look' = [look EXCEPT !.impl = "service",
                   !.out = service_get_ingredient(look.req.q, look.req.fdc_id,
                               look.req.search, look.req.fetch, look.req.details,
                               look.req.scaling)]
    /\ UNCHANGED <<ing, base, hist, steps, conv, norm, agg, lim>>

\* GET /ingredient of server_async.py
AsyncLookup ==
    /\ look.impl = "none"
    /\ look' = [look EXCEPT !.impl = "async",
                   !.out = async_get_ingredient(look.req.q, look.req.fdc_id,
                               look.req.search, look.req.fetch, look.req.details,
                               look.req.scaling)]
    /\ UNCHANGED <<ing, base, hist, steps, conv, norm, agg, lim>>

LookupNext == RouteLookup \/ ServiceLookup \/ AsyncLookup

LookupSpec == LookupInit /\ [][LookupNext]_vars

----------------------------------------------------------------------------
(* State machine of the threads calling the rate limiter                    *)

WindowInit ==
    /\ ing = TestFood
    /\ base = ing
    /\ hist = <<>>
    /\ steps = 0
    /\ conv = NoCall
    /\ norm = NoNorm
    /\ agg = NoAggregation
    /\ lim = UnusedLimiter
    /\ look = NoLookup

\* "with self.lock:" and "current_time = time.time()" of increment or check_limit
Enter ==
    /\ lim.ops < MaxOps
    /\ lim.lock = "free"
    /\ \E t \in THREADS, op \in {"increment", "check_limit"}, ip \in IPS :
          /\ lim.threads[t].pc = "idle"
          /\ lim' = [lim EXCEPT !.lock = t,
                        !.threads[t] = [pc |-> "locked", op |-> op, ip |-> ip,
                                        current_time |-> lim.now]]
    /\ UNCHANGED <<ing, base, hist, steps, conv, norm, agg, look>>

\* the rest of the method's body and the release of the lock
Leave ==
    /\ lim.lock # "free"
    /\ LET t     == lim.lock
           me    == lim.threads[t]
           r     == Call(me.op, lim.logs, me.ip, me.current_time)
           prior == Len(Preceding(lim.accepted[me.ip], me.current_time))
           inc   == me.op = "increment"
       IN  lim' = [lim EXCEPT
                      !.lock = "free",
                      !.threads[t] = Idle,
                      !.ops = @ + 1,
                      !.logs = r.logs,
                      !.accepted[me.ip] = IF inc /\ r.allowed
                                          THEN Append(@, me.current_time) ELSE @,
                      !.denied[me.ip] = IF ~inc THEN @
                                        ELSE IF r.allowed THEN 0 ELSE @ + 1,
                      !.last = [called |-> TRUE, op |-> me.op, ip |-> me.ip,
                                current_time |-> me.current_time,
                                allowed |-> r.allowed, remaining |-> r.remaining,
                                prior |-> prior, denied |-> lim.denied[me.ip]]]
    /\ UNCHANGED <<ing, base, hist, steps, conv, norm, agg, look>>

\* a second passes, whether or not a thread holds the lock
WindowTick ==
    /\ lim.now < MaxTime
    /\ lim' = [lim EXCEPT !.now = @ + 1]
    /\ UNCHANGED <<ing, base, hist, steps, conv, norm, agg, look>>

WindowNext == Enter \/ Leave \/ WindowTick

WindowSpec == WindowInit /\ [][WindowNext]_vars

----------------------------------------------------------------------------
(* State machine of concurrent _get_food calls                              *)

CacheInit ==
    /\ ing = TestFood
    /\ base = ing
    /\ hist = <<>>
    /\ steps = 0
    /\ conv = NoCall
    /\ norm = NoNorm
    /\ agg = NoAggregation
    /\ lim = EmptyCache
    /\ look = NoLookup

\* _get_food lines 193-206: return the cached food, or pass the rate check
\* and send the upstream request
StartFetch ==
    /\ \E t \in TASKS, fdc_id \in CACHED_IDS :
          /\ lim.tasks[t].pc = "idle"
          /\ LET chk == check_rate_limit(lim.logs, CLIENT, lim.now)
                 met == [called |-> TRUE, task |-> t, fdc_id |-> fdc_id,
                         event |-> "hit", full |-> FALSE]
             IN  IF InCache(lim.cache, fdc_id)
                 THEN lim' = [lim EXCEPT !.last = met]
                 ELSE IF chk.err # "none"
                 THEN lim' = [lim EXCEPT !.logs = chk.logs,
                                 !.last = [met EXCEPT !.event = "refused"]]
                 ELSE lim' = [lim EXCEPT !.logs = chk.logs,
                                 !.tasks[t] = [pc |-> "fetching", fdc_id |-> fdc_id],
                                 !.last = [met EXCEPT !.event = "sent"]]
    /\ UNCHANGED <<ing, base, hist, steps, conv, norm, agg, look>>

\* _get_food lines 208-241: the upstream answers; the food is stored, or the
\* failure is raised as ValueError
CompleteFetch ==
    /\ \E t \in TASKS, fetch \in FetchOutcomes :
          /\ lim.tasks[t].pc = "fetching"
          /\ LET fdc_id == lim.tasks[t].fdc_id
                 done   == [called |-> TRUE, task |-> t, fdc_id |-> fdc_id,
                            event |-> "failed", full |-> FALSE]
             IN  IF fetch = "ok"
                 THEN lim' = [lim EXCEPT
                                 !.tasks[t] = NoTask,
                                 !.cache = cache_store(lim.cache, fdc_id),
                                 !.last = [done EXCEPT !.event = "stored",
                                              !.full = Len(lim.cache) >= MAX_CACHE_SIZE]]
                 ELSE lim' = [lim EXCEPT !.tasks[t] = NoTask, !.last = done]
    /\ UNCHANGED <<ing, base, hist, steps, conv, norm, agg, look>>

\* a second passes
CacheTick ==
    /\ lim.now < MaxTime
    /\ lim' = [lim EXCEPT !.now = @ + 1]
    /\ UNCHANGED <<ing, base, hist, steps, conv, norm, agg, look>>

CacheNext == StartFetch \/ CompleteFetch \/ CacheTick

CacheSpec == CacheInit /\ [][CacheNext]_vars

(***************************************************************************)
(* State machine of the TTLCache                                           *)
(***************************************************************************)
TTLInit ==
    /\ ing = TestFood
    /\ base = ing
    /\ hist = <<>>
    /\ steps = 0
    /\ conv = NoCall
    /\ norm = NoNorm
    /\ agg = NoAggregation
    /\ lim = NewTTLCache
    /\ look = NoLookup

\* TTLCache.get(key)
CacheGet ==
    /\ \E key \in CACHE_KEYS :
          LET got == cache_get(lim.cache, key, lim.now)
          IN  lim' = [lim EXCEPT
                         !.cache = got.cache,
                         !.last = [called |-> TRUE, op |-> "get", key |-> key,
                                   value |-> got.value,
                                   present |-> KeyIndex(lim.cache, key) > 0,
                                   full |-> Len(lim.cache) >= maxsize]]
    /\ UNCHANGED <<ing, base, hist, steps, conv, norm, agg, look>>

\* TTLCache.set(key, value)
CacheSet ==
    /\ \E key \in CACHE_KEYS, value \in CACHE_VALUES :
          lim' = [lim EXCEPT
                     !.cache = cache_set(lim.cache, key, value, lim.now),
                     !.last = [called |-> TRUE, op |-> "set", key |-> key,
                               value |-> value,
                               present |-> KeyIndex(lim.cache, key) > 0,
                               full |-> Len(lim.cache) >= maxsize]]
    /\ UNCHANGED <<ing, base, hist, steps, conv, norm, agg, look>>

\* a second passes
TTLTick ==
    /\ lim.now < MaxTime
    /\ lim' = [lim EXCEPT !.now = @ + 1]
    /\ UNCHANGED <<ing, base, hist, steps, conv, norm, agg, look>>

TTLNext == CacheGet \/ CacheSet \/ TTLTick

TTLSpec == TTLInit /\ [][TTLNext]_vars

----------------------------------------------------------------------------
(* Properties of Ingredient.scale, checked under Spec                       *)

\* the most recent scale call: the ingredient before it, its arguments, its error
Last == hist[Len(hist)]

Succeeded(h) == h.err = NoError

\* x as a count of ten-thousandths, for x a multiple of 10^-4
Grid(x) == x.n * (Pow10(NDIGITS) \div x.d)

\* |x - y| <= tol, for multiples of 10^-4
Within(x, y, tol) == Abs(Grid(x) - Grid(y)) <= Grid(tol)

\* the rounding tolerance of the round-trip and consistency laws
Tolerance == Dec(1, 3)

\* C1: a successful scale(amount, unit) leaves a serving (unit, amount, newGrams)
\* and every nutrient value equal to round(old value * factor, 4) for one and the
\* same factor: newGrams / oldGrams when both are non-zero, 1 otherwise; the test's
\* 100 g / 10 g protein ingredient scaled to 200 g has amount 200, unit 'g', protein 20.
C1_ScaleContract ==
    (hist # <<>> /\ Succeeded(Last)) =>
        LET pre       == Last.pre
            old_grams == pre.serving.grams
            new_grams == ing.serving.grams
            factor    == IF old_grams.n # 0 /\ new_grams.n # 0
                         THEN <<new_grams, RatInv(old_grams)>>
                         ELSE <<Rat(1, 1)>>
        IN  /\ ing.serving.amount = Last.amount
            /\ ing.serving.unit = Lower(Strip(Last.unit))
            /\ ing.portions = pre.portions
            /\ Len(ing.nutrients) = Len(pre.nutrients)
            /\ \A i \in 1..Len(pre.nutrients) :
                 /\ ing.nutrients[i].key = pre.nutrients[i].key
                 /\ ing.nutrients[i].value =
                        Round4Prod(<<pre.nutrients[i].value>> \o factor)
            /\ (pre = TestFood /\ Last.amount = Dec(200, 0) /\ Last.unit = G) =>
                 /\ ing.serving.amount = Dec(200, 0)
                 /\ ing.serving.unit = G
                 /\ ing.nutrients[1].value = Dec(20, 0)

\* the test's example has run: 100 g with 10 g protein, scaled to 200 g
C1_Witness ==
    /\ hist # <<>>
    /\ Succeeded(Last)
    /\ Last.pre = TestFood
    /\ Last.amount = Dec(200, 0)
    /\ Last.unit = G
    /\ ing.nutrients[1].value = Dec(20, 0)

\* C2: the new gram weight comes from the first portion, in list order, whose unit
\* equals the target unit as scale normalizes it (trimmed, lowercased):
\* newGrams = amount / match.amount * match.grams, and the converter is not
\* consulted (its errors cannot occur, its density value is not used); only when
\* no portion matches is newGrams = convert(amount, unit, 'g').
C2_ResolutionOrder ==
    hist # <<>> =>
        LET pre       == Last.pre
            unit_norm == Lower(Strip(Last.unit))
            hits      == {i \in 1..Len(pre.portions) : pre.portions[i].unit = unit_norm}
        IN  IF hits # {}
            THEN \E m \in hits :
                   /\ \A j \in hits : m <= j
                   /\ Succeeded(Last)
                   /\ ing.serving.grams =
                        RatMul(RatDiv(Last.amount, pre.portions[m].amount),
                               pre.portions[m].grams)
            ELSE LET c == convert_units(Last.amount, unit_norm, G)
                 IN  /\ Last.err = c.err
                     /\ Succeeded(Last) => ing.serving.grams = c.val

\* one cup of the ingredient whose first cup portion weighs 250 g: 250 g, although
\* the converter would give 240 g and a later cup portion 240 g per cup
C2_Witness ==
    /\ hist # <<>>
    /\ Last.pre = Flour
    /\ Last.unit = CUP
    /\ Last.amount = Dec(1, 0)
    /\ ing.serving.grams = Dec(250, 0)
    /\ convert_units(Last.amount, Last.unit, G).val = Dec(240, 0)

\* C3: after any sequence of successful rescales every nutrient value equals the
\* baseline value times serving.grams / baseline grams, up to rounding.
C3_ConsistentWithServing ==
    \A i \in 1..Len(ing.nutrients) :
        Within(ing.nutrients[i].value,
               Round4Prod(<<base.nutrients[i].value, ing.serving.grams,
                            RatInv(base.serving.grams)>>),
               Tolerance)

\* C4: a scale call that raises leaves the serving and every nutrient value
\* exactly as they were before the call.
C4_AllOrNothing ==
    (hist # <<>> /\ ~Succeeded(Last)) => ing = Last.pre

\* both failures have happened on a rescaled ingredient: an unsupported unit and a
\* negative amount passed to the converter
C4_Witness ==
    /\ Len(hist) = 2
    /\ hist[1].err.kind = "Cannot convert"
    /\ hist[2].err.kind = "Amount must be non-negative"
    /\ ing = hist[1].pre

\* C5: rescale(amount, unit) followed by rescale(originalAmount, originalUnit),
\* both succeeding, restores every nutrient value within rounding tolerance.
C5_ScaleRoundTrip ==
    (/\ Len(hist) = 2
     /\ Succeeded(hist[1])
     /\ Succeeded(hist[2])
     /\ hist[2].amount = hist[1].pre.serving.amount
     /\ hist[2].unit = hist[1].pre.serving.unit) =>
        \A i \in 1..Len(ing.nutrients) :
            Within(ing.nutrients[i].value, hist[1].pre.nutrients[i].value, Tolerance)

\* C6: after a successful rescale the serving's unit is normalize(unit), and a
\* target given as a synonym matches the portion with the canonical unit.
C6_NormalizedUnit ==
    (hist # <<>> /\ Succeeded(Last)) =>
        LET pre  == Last.pre
            u    == normalize_unit(Last.unit)
            hits == {i \in 1..Len(pre.portions) : pre.portions[i].unit = u}
        IN  /\ ing.serving.unit = u
            /\ hits # {} =>
                 \E m \in hits :
                   /\ \A j \in hits : m <= j
                   /\ ing.serving.grams =
                        RatMul(RatDiv(Last.amount, pre.portions[m].amount),
                               pre.portions[m].grams)

----------------------------------------------------------------------------
(* Properties of convert_units, checked under ConvSpec                      *)

MassNames == {<<"m","g">>, <<"g">>, <<"k","g">>, <<"o","z">>, <<"l","b">>}

VolumeNames ==
    {<<"m","l">>, <<"l">>, <<"t","s","p">>, <<"t","b","s","p">>, <<"f","l"," ","o","z">>,
     <<"c","u","p">>, <<"p","i","n","t">>, <<"q","u","a","r","t">>,
     <<"g","a","l","l","o","n">>}

\* the multiplier of a recognized unit to the base unit of its domain
Multiplier(u) == IF u \in MassNames THEN MASS_UNITS[u] ELSE VOLUME_TO_ML[u]

SameDomain(u1, u2) ==
    \/ u1 \in MassNames /\ u2 \in MassNames
    \/ u1 \in VolumeNames /\ u2 \in VolumeNames

C8_Identity ==
    (/\ conv.called
     /\ ~IsNeg(conv.amount)
     /\ (conv.from = conv.to \/ normalize_unit(conv.from) = normalize_unit(conv.to))) =>
        /\ conv.err = NoError
        /\ conv.val = conv.amount

\* an unrecognized unit, spelled in two cases, returns the amount itself
C8_Witness ==
    /\ conv.called
    /\ conv.from = <<"P","i","e","c","e">>
    /\ conv.to = <<"p","i","e","c","e">>
    /\ conv.amount = Dec(1, 3)
    /\ conv.val = conv.amount

\* C9: convert rejects every negative amount with 'Amount must be non-negative',
\* whatever the two unit strings are.
C9_NegativeRejected ==
    (conv.called /\ IsNeg(conv.amount)) =>
        conv.err = [kind |-> "Amount must be non-negative", a |-> <<>>, b |-> <<>>]

\* a negative amount between equal units, where the identity shortcut would
\* otherwise apply
C9_Witness ==
    /\ conv.called
    /\ IsNeg(conv.amount)
    /\ conv.from = conv.to
    /\ conv.err.kind = "Amount must be non-negative"

\* the density table as the specification writes it
SpecDensity ==
    (<<"c","u","p">> :> 240) @@ (<<"t","b","s","p">> :> 15) @@ (<<"t","s","p">> :> 5)
    @@ (<<"f","l","_","o","z">> :> 30) @@ (<<"m","l">> :> 1) @@ (<<"l">> :> 1000)
    @@ (<<"p","i","n","t">> :> 473) @@ (<<"q","u","a","r","t">> :> 946)
    @@ (<<"g","a","l","l","o","n">> :> 3785)

\* the same table with the fluid ounce under the code's canonical name 'fl oz'
CodeDensity ==
    (<<"c","u","p">> :> 240) @@ (<<"t","b","s","p">> :> 15) @@ (<<"t","s","p">> :> 5)
    @@ (<<"f","l"," ","o","z">> :> 30) @@ (<<"m","l">> :> 1) @@ (<<"l">> :> 1000)
    @@ (<<"p","i","n","t">> :> 473) @@ (<<"q","u","a","r","t">> :> 946)
    @@ (<<"g","a","l","l","o","n">> :> 3785)

\* for amount >= 0: convert(amount, v, 'g') = amount * density[v] and
\* convert(amount, 'g', v) = amount / density[v], unrounded, for v in the table
CrossDomain(density) ==
    (conv.called /\ ~IsNeg(conv.amount)) =>
        /\ (conv.from \in DOMAIN density /\ conv.to = <<"g">>) =>
             /\ conv.err = NoError
             /\ conv.val = RatMul(conv.amount, Rat(density[conv.from], 1))
        /\ (conv.from = <<"g">> /\ conv.to \in DOMAIN density) =>
             /\ conv.err = NoError
             /\ conv.val = RatDiv(conv.amount, Rat(density[conv.to], 1))
        /\ (conv.amount = Dec(1, 0) /\ conv.from = <<"c","u","p">> /\ conv.to = <<"g">>) =>
             conv.val = Dec(240, 0)

NonGramMass == MassNames \ {<<"g">>}

Recognized(u) == u \in MassNames \cup VolumeNames

\* C11: for amount >= 0 (the converter's precondition), a conversion between a
\* mass unit other than 'g' (mg, kg, oz, lb) and a volume unit fails in both
\* directions with 'Cannot convert', and so does every pair with an
\* unrecognized unit whose two units differ after normalization.
C11_GramOnlyCrossDomain ==
    (conv.called /\ ~IsNeg(conv.amount)) =>
        LET f == normalize_unit(conv.from)
            t == normalize_unit(conv.to)
        IN  (\/ f \in NonGramMass /\ t \in VolumeNames
             \/ f \in VolumeNames /\ t \in NonGramMass
             \/ (~Recognized(f) \/ ~Recognized(t)) /\ f # t) =>
                conv.err.kind = "Cannot convert"

\* one ounce to cups, a pair the density table would serve if it were read per
\* gram: refused
C11_Witness ==
    /\ conv.called
    /\ conv.amount = Dec(1, 0)
    /\ conv.from = <<"o","z">>
    /\ conv.to = <<"c","u","p">>
    /\ conv.err.kind = "Cannot convert"

\* both exceptions convert_units raises are ValueError
IsValueError(err) == err.kind \in {"Amount must be non-negative", "Cannot convert"}

\* C12: a conversion from a mass unit to a volume unit raises ValueError; in
\* particular convert_units(1, 'g', 'cup') raises instead of returning a value.
C12_MassToVolumeRaises ==
    (/\ conv.called
     /\ normalize_unit(conv.from) \in MassNames
     /\ normalize_unit(conv.to) \in VolumeNames) =>
        IsValueError(conv.err)

\* C13: whenever convert or scale fails with 'Cannot convert', the error names the
\* unit strings exactly as the caller supplied them, before trimming, lowercasing
\* and synonym lookup; for scale the caller's unit is the source and 'g' the target.
C13_ErrorNamesOriginal ==
    /\ (conv.called /\ conv.err.kind = "Cannot convert") =>
          (conv.err.a = conv.from /\ conv.err.b = conv.to)
    /\ (hist # <<>> /\ Last.err.kind = "Cannot convert") =>
          (Last.err.a = Last.unit /\ Last.err.b = G)

----------------------------------------------------------------------------
(* Properties of a conversion and its reverse, checked under RoundTripSpec   *)

\* C14: for units u1, u2 of one domain and amount a >= 0,
\* convert(convert(a, u1, u2), u2, u1) differs from a by at most 10^-3, small
\* amounts converted to a much larger unit (mg to lb, tsp to gallon) included.
C14_ConvertRoundTrip ==
    (/\ conv.back.called
     /\ ~IsNeg(conv.amount)
     /\ SameDomain(conv.from, conv.to)) =>
        /\ conv.back.err = NoError
        /\ Within(conv.back.val, conv.amount, Tolerance)

----------------------------------------------------------------------------
(* Documented values of convert_units, checked under ConvSpec               *)

PINT == <<"p","i","n","t">>

GALLON == <<"g","a","l","l","o","n">>

\* the call convert_units(amount, from_unit, to_unit) has been made
Called(amount, from_unit, to_unit) ==
    conv.called /\ conv.amount = amount /\ conv.from = from_unit /\ conv.to = to_unit

\* C15: convert(1, 'cup', 'tbsp') = 16, convert(0.5, 'gallon', 'cup') = 8,
\* convert(2, 'cup', 'tbsp') = 32 and convert(2, 'pint', 'cup') = 4.
C15_ExactUSRatios ==
    /\ Called(Dec(1, 0), CUP, TBSP) => conv.val = Dec(16, 0)
    /\ Called(Dec(5, 1), GALLON, CUP) => conv.val = Dec(8, 0)
    /\ Called(Dec(2, 0), CUP, TBSP) => conv.val = Dec(32, 0)
    /\ Called(Dec(2, 0), PINT, CUP) => conv.val = Dec(4, 0)

----------------------------------------------------------------------------
(* Properties of normalize_unit, checked under NormSpec                     *)

IsUpper(c) == \E i \in 1..Len(UPPERCASE) : UPPERCASE[i] = c

\* s is t without leading and trailing whitespace, in lower case
TrimmedLowercased(s, t) ==
    /\ \A i \in 1..Len(s) : ~IsUpper(s[i])
    /\ s # <<>> => (s[1] \notin WHITESPACE /\ s[Len(s)] \notin WHITESPACE)
    /\ \E k \in 0..Len(t) :
         /\ k + Len(s) <= Len(t)
         /\ \A i \in 1..Len(s) : s[i] = LowerChar(t[k + i])
         /\ \A i \in (1..k) \cup ((k + Len(s) + 1)..Len(t)) : t[i] \in WHITESPACE

\* C16: normalize is idempotent, normalize(normalize(x)) = normalize(x); every
\* value of the synonym table is itself a key that maps to itself; and a string
\* the table does not know is returned trimmed and lowercased.
C16_NormalizeIdempotent ==
    /\ norm.calls = 2 => norm.twice = norm.once
    /\ \A k \in DOMAIN UNIT_SYNONYMS :
         /\ UNIT_SYNONYMS[k] \in DOMAIN UNIT_SYNONYMS
         /\ UNIT_SYNONYMS[UNIT_SYNONYMS[k]] = UNIT_SYNONYMS[k]
    /\ (norm.calls >= 1 /\ norm.once \notin DOMAIN UNIT_SYNONYMS) =>
         TrimmedLowercased(norm.once, norm.input)

\* an unknown unit, padded and in upper case, normalized twice
C16_Witness ==
    /\ norm.calls = 2
    /\ norm.input = <<" ","P","I","E","C","E","\t">>
    /\ norm.once = <<"p","i","e","c","e">>
    /\ norm.twice = norm.once

----------------------------------------------------------------------------
(* Properties of the recipe aggregators, checked under RecipeSpec           *)

Aggregated == agg.impl # "none"

RECURSIVE KeySum(_, _)
\* the sum of the values of the nutrients with key k
KeySum(nuts, k) ==
    IF nuts = <<>> THEN Zero
    ELSE IF Head(nuts).key = k THEN RatAdd(Head(nuts).value, KeySum(Tail(nuts), k))
    ELSE KeySum(Tail(nuts), k)

KeysOf(nuts) == {nuts[i].key : i \in 1..Len(nuts)}

\* C17: a successful aggregation returns, for each nutrient key, the sum of the
\* values of the nutrients with that key over all ingredients (0 from an
\* ingredient that lacks the key, one entry per key whatever the display names),
\* and no entry is keyed by anything other than a nutrient key.
C17_TotalsByKey ==
    (Aggregated /\ agg.out.err = "none") =>
        LET total == agg.out.total
            nuts  == AllNutrients(agg.items)
        IN  /\ KeysOf(nuts) \subseteq DOMAIN total
            /\ \A k \in DOMAIN total :
                 /\ k \in KeysOf(nuts) \cup NUTRIENT_KEYS
                 /\ total[k] = KeySum(nuts, k)

\* C18: aggregating an empty ingredient list fails with the EmptyInput
\* validation error and returns no totals: the services raise 'Empty ingredient
\* list', POST /recipe answers 422, and no lookup is made.
C18_EmptyInputRejected ==
    (Aggregated /\ agg.items = <<>>) =>
        /\ agg.out.lookups = 0
        /\ agg.out.total = NoTotal
        /\ agg.impl \in {"calculate_recipe", "calculate_recipe_async"} =>
             agg.out.err = "Empty ingredient list"
        /\ agg.impl \in {"recipe", "recipe_async"} =>
             (agg.out.err = "HTTPException" /\ agg.out.http = 422)

----------------------------------------------------------------------------
(* Invariants of the Ingredient, checked under Spec                         *)

IsPos(x) == x.n > 0

\* C19: every portion an ingredient holds, the serving left by a successful
\* scale included, has grams > 0 whenever its amount > 0.
C19_PositiveGrams ==
    /\ IsPos(ing.serving.amount) => IsPos(ing.serving.grams)
    /\ \A i \in 1..Len(ing.portions) :
         IsPos(ing.portions[i].amount) => IsPos(ing.portions[i].grams)


----------------------------------------------------------------------------
(* The rate limit of the async ingredient endpoint, checked under           *)
(* LimiterSpec                                                              *)

\* the last request named a food, by q or by fdc_id
NamesFood == lim.last.called /\ (lim.last.q \/ lim.last.fdc_id # 0)

\* C20: a request that names a food is answered 429 exactly when its IP already
\* had max_requests requests accepted within the preceding window, and a request
\* that is not answered 429 consumes exactly one unit of the IP's budget, by q
\* or by fdc_id, cached or not.
C20_OneUnitPerRequest ==
    NamesFood =>
        /\ lim.last.status = 429 <=> lim.last.prior >= max_requests
        /\ lim.last.status # 429 => lim.last.units = 1
----------------------------------------------------------------------------
(* Error statuses of the async recipe endpoint, checked under RecipeSpec    *)

\* C21: when a lookup of an async recipe request is refused by the rate
\* limiter, POST /recipe of server_async.py answers 429, not 400.
C21_RateLimitReachesClient ==
    (agg.impl = "recipe_async" /\ \E i \in 1..Len(agg.items) : agg.items[i] = RateLimited)
        => agg.out.http = 429

----------------------------------------------------------------------------
(* Properties of the ingredient lookups, checked under LookupSpec           *)

\* a lookup was served
Served == look.impl # "none"

\* C22: a lookup with neither q nor fdc_id is rejected as a validation error
\* (422 from a route, ValueError "Must provide q or fdc_id" from the service)
\* without any search or food fetch; a lookup with both uses fdc_id and makes
\* no search.
C22_MissingParamsRejected ==
    Served =>
        /\ (~look.req.q /\ look.req.fdc_id = 0) =>
              /\ look.out.searches = 0 /\ look.out.fetches = 0
              /\ look.impl = "service" => look.out.err = "ValueError Must provide q or fdc_id"
              /\ look.impl # "service" => look.out.status = 422
        /\ (look.req.q /\ look.req.fdc_id # 0) =>
              /\ look.out.searches = 0
              /\ look.out.fetches = 1

\* a route has rejected a request without parameters
C22_Witness ==
    /\ look.impl = "route"
    /\ ~look.req.q /\ look.req.fdc_id = 0
    /\ look.out.status = 422

----------------------------------------------------------------------------
(* Properties of RateLimiter, checked under WindowSpec                      *)

\* the allowed increments of an ip with a timestamp in the window ending at t
InWindow(ip, t) ==
    {i \in 1..Len(lim.accepted[ip]) :
        lim.accepted[ip][i] >= t - window_seconds /\ lim.accepted[ip][i] <= t}

\* C23: for every ip and every time t, at most max_requests allowed increments
\* have a timestamp in the window ending at t, and the remaining a call
\* returns is max_requests minus the recorded in-window requests, 0 when the
\* call is refused.
C23_SlidingWindowBound ==
    /\ \A ip \in IPS : \A t \in 0..(MaxTime + window_seconds) :
          Cardinality(InWindow(ip, t)) <= max_requests
    /\ lim.last.called =>
          lim.last.remaining =
              IF ~lim.last.allowed THEN 0
              ELSE max_requests
                     - Cardinality(InWindow(lim.last.ip, lim.last.current_time))

\* an increment was refused while its ip's window was full
C23_Witness ==
    /\ lim.last.called /\ lim.last.op = "increment" /\ ~lim.last.allowed
    /\ Cardinality(InWindow(lim.last.ip, lim.last.current_time)) = max_requests

\* a thread completes the call it is in
Completes(op) ==
    /\ lim.lock # "free"
    /\ lim.threads[lim.lock].op = op
    /\ lim'.lock = "free"

\* C24: a check_limit call records no request: it adds no timestamp to any log
\* and to no ip's history, and every increment made at a later time has the
\* outcome (allowed, remaining, the ip's log) it would have had without the call.
C24_CheckLimitDoesNotCount ==
    [][Completes("check_limit") =>
          /\ lim'.accepted = lim.accepted
          /\ \A ip \in IPS :
                /\ Len(lim'.logs[ip]) <= Len(lim.logs[ip])
                /\ \A t \in lim.threads[lim.lock].current_time..(MaxTime + window_seconds + 1) :
                      LET with    == increment(lim'.logs, ip, t)
                          without == increment(lim.logs, ip, t)
                      IN  /\ with.allowed = without.allowed
                          /\ with.remaining = without.remaining
                          /\ with.logs[ip] = without.logs[ip]]_vars

\* a check_limit was answered for an ip that had requests recorded in its window
C24_Witness ==
    /\ lim.last.called /\ lim.last.op = "check_limit"
    /\ lim.last.remaining < max_requests
    /\ lim.logs[lim.last.ip] # <<>>

\* C25: a refused increment leaves every log unchanged, and an increment is
\* allowed exactly when fewer than max_requests allowed increments of its ip
\* lie in the window ending at its time, however many were refused in between.
C25_RefusalsDoNotExtendBlock ==
    [][Completes("increment") =>
          LET me == lim.threads[lim.lock]
          IN  /\ lim'.last.allowed <=>
                    Len(Preceding(lim.accepted[me.ip], me.current_time)) < max_requests
              /\ ~lim'.last.allowed => lim'.logs = lim.logs]_vars

\* an ip that filled its window and was then refused twice is allowed again
C25_Witness ==
    /\ lim.last.called /\ lim.last.op = "increment" /\ lim.last.allowed
    /\ lim.last.denied >= 2
    /\ Len(lim.accepted[lim.last.ip]) = max_requests + 1

----------------------------------------------------------------------------
(* Properties of the async food cache, checked under CacheSpec              *)

\* the coroutines whose upstream request for fdc_id is under way
Fetching(fdc_id) ==
    {t \in TASKS : lim.tasks[t].pc = "fetching" /\ lim.tasks[t].fdc_id = fdc_id}

\* C26: an upstream request for an fdc_id is under way only for an id that
\* was absent from the cache when the call looked, and never for two
\* overlapping calls at once: one fetch per fdc_id until it is evicted.
C26_OneFetchPerFood ==
    \A f \in CACHED_IDS : Cardinality(Fetching(f)) <= 1

\* a step of _get_food after the upstream has answered
Stores == \E t \in TASKS : lim.tasks[t].pc = "fetching" /\ lim'.tasks[t].pc = "idle"

Holds(cache, key) == KeyIndex(cache, key) > 0

\* the cache never holds more than maxsize entries
TTLBounded == Len(lim.cache) <= maxsize

\* a set of an absent key on a full cache removes the earliest expiry only
TTLEvictsEarliest ==
    [][(lim'.last.op = "set" /\ Len(lim.cache) >= maxsize
        /\ ~Holds(lim.cache, lim'.last.key)) =>
          \A i \in 1..Len(lim.cache) :
             Holds(lim'.cache, lim.cache[i].key) <=> i # oldest_key(lim.cache)]_vars

\* C28: a set of a key that is already in the cache replaces its value and
\* leaves every other key in the cache
C28_ReplaceKeepsOthers ==
    [][(lim'.last.op = "set" /\ Holds(lim.cache, lim'.last.key)) =>
          /\ lim'.cache[KeyIndex(lim'.cache, lim'.last.key)].value = lim'.last.value
          /\ \A i \in 1..Len(lim.cache) : Holds(lim'.cache, lim.cache[i].key)]_vars

----------------------------------------------------------------------------
(* Signs after Ingredient.scale, checked under Spec                         *)

\* C29: from a non-negative baseline, no sequence of scale calls leaves a
\* negative serving weight or a negative nutrient value.
C29_NeverNegative ==
    /\ ~IsNeg(ing.serving.grams)
    /\ \A i \in 1..Len(ing.nutrients) : ~IsNeg(ing.nutrients[i].value)

----------------------------------------------------------------------------
(* The three constructors of an Ingredient compared, checked under          *)
(* LookupSpec                                                               *)

\* nutrients with the same key have the same value in a and in b
SameValues(a, b) ==
    \A i \in 1..Len(a.nutrients), j \in 1..Len(b.nutrients) :
        a.nutrients[i].key = b.nutrients[j].key =>
            a.nutrients[i].value = b.nutrients[j].value

\* C30: whichever constructor builds it, the ingredient starts with the
\* 100 g portion as its serving and as its first portion and with the
\* upstream amounts as nutrient values; so the sync route, the service and
\* the async route return the same serving grams and nutrient values for one
\* request, and a rescale to 100 g returns the values it started with.
C30_SameBaseline ==
    Served =>
        LET r == look.req
            byRoute   == route_get_ingredient(r.q, r.fdc_id, r.search, r.fetch,
                                              r.details, r.scaling)
            byService == service_get_ingredient(r.q, r.fdc_id, r.search, r.fetch,
                                                r.details, r.scaling)
            byAsync   == async_get_ingredient(r.q, r.fdc_id, r.search, r.fetch,
                                              r.details, r.scaling)
        IN  /\ look.out.built # NoIngredient =>
                 /\ look.out.built.serving = default_portion
                 /\ look.out.built.portions # <<>>
                 /\ look.out.built.portions[1] = default_portion
                 /\ \A i \in 1..Len(look.out.built.nutrients) :
                       \E j \in 1..Len(r.details.foodNutrients) :
                          r.details.foodNutrients[j].amount =
                             look.out.built.nutrients[i].value
            /\ (byRoute.err = "none" /\ byService.err = "none" /\ byAsync.err = "none") =>
                 /\ byRoute.ing.serving.grams = byService.ing.serving.grams
                 /\ byService.ing.serving.grams = byAsync.ing.serving.grams
                 /\ SameValues(byRoute.ing, byService.ing)
                 /\ SameValues(byService.ing, byAsync.ing)
                 /\ SameValues(byRoute.ing, byAsync.ing)
            /\ (look.out.err = "none" /\ r.scaling = Scaling(TRUE, Dec(100, 0), TRUE, G)) =>
                 look.out.ing.nutrients = look.out.built.nutrients

====
